---- MODULE Spec2Model ----
(***************************************************************************)
(* Model of the video conversion service: the conversion_jobs row and its  *)
(* repository, the admission handlers (CreateJob, CancelJob), the durable  *)
(* workflow VideoConversionWorkflow and the stage activities it runs.      *)
(***************************************************************************)
EXTENDS Integers, Sequences, FiniteSets, TLC

VARIABLES
    jobs,            \* conversion_jobs: job id -> row (a sequence, ids 1..Len)
    errors,          \* conversion_errors: error id -> row
    createPc,        \* position of Handler.CreateJob
    cancelPc,        \* position of Handler.CancelJob
    cancelsLeft,     \* cancel requests the client may still issue
    cancelIssued,    \* a cancel request read the job as QUEUED or RUNNING
    wfPc,            \* position of VideoConversionWorkflow
    wfStage,         \* index in AllStages of the stage the workflow is at
    cancelled,       \* the workflow's local variable `cancelled`
    signalPending,   \* a "cancel" signal waits in the signal channel
    ctxCancelled,    \* the workflow context was cancelled (CancelWorkflow)
    output,          \* VideoConversionWorkflowOutput.Status
    act,             \* the activity execution the workflow is waiting for
    zombie,          \* an activity execution the workflow stopped waiting for
    workspaceExists, \* the job's workspace directory is on disk
    startOrder,      \* stages in the order their activity was first scheduled
    finishedStages,  \* stages whose activity ended before Get returned
    failedStages,    \* stages whose Get returned an error
    finalized,       \* the FinalizeJob activity body has run
    upd,             \* clients of JobRepository.Update: id -> [pc, copy]
    okAt,            \* lock_version -> successful Updates that carried it
    failAt,          \* lock_version -> Updates that carried it and lost
    adm,             \* admission requests with an idempotency key: id -> [pc, ...]
    started,         \* job ids for which ExecuteWorkflow started a workflow
    tree,            \* workspace: upload directory -> number of files in it
    ua,              \* the UploadArtifacts activity: [pc, dir, attempt, video_id,
                     \* maxConcurrent]
    gor,             \* UploadDirectory's goroutines: file -> state
    sem,             \* slots of UploadDirectory's semaphore that are taken
    errChan,         \* number of errors sent to UploadDirectory's errChan
    dirArtifacts,    \* UploadDirectory's local `artifacts` (their keys)
    allArtifacts,    \* UploadArtifacts' local `allArtifacts` (their keys)
    upCtxDone,       \* the activity context of UploadArtifacts is cancelled
    objects,         \* the output bucket: [dir, file, key] of every object put
    artifactRows,    \* conversion_artifacts: committed rows
    lastReturn,      \* what the last UploadDirectory call returned
    ew,              \* callers of ErrorRepository.Create: id -> [pc, error_id, calls]
    fq,              \* Transcode's quality filter: [pc, qualities, height, filtered]
    mp,              \* Client.Upload of one file: [pc, size, partSize, ...]
    run,             \* Runner.Run of one subprocess: [pc, site, clock, ...]
    dl,              \* ExtractMetadata's source download: [pc, attempt, cause, code]
    sw,              \* the workdir root and the orphan sweep over it
    pool,            \* the worker's activity task slots
    calc,            \* a job row and its computed overall progress
    at,              \* an uploaded key and the artifact type it is given
    rg,              \* the goroutines of one Runner.Run with a progress callback
    jobsActive       \* the converter_jobs_active gauge of the worker

vars == <<jobs, errors, createPc, cancelPc, cancelsLeft, cancelIssued, wfPc,
          wfStage, cancelled, signalPending, ctxCancelled, output, act, zombie,
          workspaceExists, startOrder, finishedStages, failedStages, finalized,
          upd, okAt, failAt, adm, started, tree, ua, gor, sem, errChan,
          dirArtifacts, allArtifacts, upCtxDone, objects, artifactRows,
          lastReturn, ew, fq, mp, run, dl, sw, pool, calc, at, rg, jobsActive>>

apiVars == <<createPc, cancelPc, cancelsLeft, cancelIssued>>
wfVars == <<wfPc, wfStage, cancelled, signalPending, ctxCancelled, output>>
histVars == <<startOrder, finishedStages, failedStages, finalized>>
updVars == <<upd, okAt, failAt>>
idemVars == <<adm, started>>
dirVars == <<gor, sem, errChan, dirArtifacts>>
upVars == <<tree, ua, dirVars, allArtifacts, upCtxDone, objects, artifactRows,
            lastReturn>>
errVars == <<ew>>
pureVars == <<fq, mp>>
opsVars == <<run, dl, sw, pool>>
newVars == <<calc, at, rg>>
auxVars == <<newVars, jobsActive>>
extVars == <<idemVars, upVars, errVars, pureVars, opsVars, auxVars>>
coreVars == <<errors, apiVars, wfVars, act, zombie, workspaceExists, histVars>>

-----------------------------------------------------------------------------
(* Bounds *)

MaxCancels == 2
NumUpdaters == 2
MaxUpdateRounds == 1
NumClients == 2
NumFiles == 2
MaxParallelUploads == 1
MaxUploadAttempts == 2
NumErrorWriters == 2
MaxErrorCalls == 2
MaxQualities == 2
ProcessTimeout == 8
NumDirs == 2
MaxSlots == 2
MaxProgressLines == 2
MaxTicks == 2

-----------------------------------------------------------------------------
(* domain: job, stages, progress *)

NULL == "NULL"
JobID == 1

Terminal == {"COMPLETED", "FAILED", "CANCELED"}

AllStages ==
    <<"METADATA_EXTRACTION", "VALIDATION", "TRANSCODING",
      "SUBTITLES_EXTRACTION", "THUMBNAILS_GENERATION", "HLS_SEGMENTATION",
      "UPLOADING", "CLEANUP">>

StageWeight(s) ==
    CASE s = "METADATA_EXTRACTION"   -> 5
      [] s = "VALIDATION"            -> 5
      [] s = "TRANSCODING"           -> 50
      [] s = "SUBTITLES_EXTRACTION"  -> 5
      [] s = "THUMBNAILS_GENERATION" -> 10
      [] s = "HLS_SEGMENTATION"      -> 10
      [] s = "UPLOADING"             -> 10
      [] s = "CLEANUP"               -> 5
      [] OTHER                       -> 0

StageIndex(s) == CHOOSE i \in 1..Len(AllStages) : AllStages[i] = s

RECURSIVE SumWeights(_)
SumWeights(n) == IF n = 0 THEN 0 ELSE StageWeight(AllStages[n]) + SumWeights(n - 1)

\* an overall progress that counts the current stage only
StageShareOnly(current_stage, stage_progress) ==
    (StageWeight(current_stage) * stage_progress) \div 100

CalculateOverallProgress(current_stage, stage_progress) ==
    IF current_stage = NULL THEN 0
    ELSE LET completedWeight    == SumWeights(StageIndex(current_stage) - 1)
             currentStageWeight == StageWeight(current_stage)
             totalWeight        == SumWeights(Len(AllStages))
             progress == completedWeight + ((currentStageWeight * stage_progress) \div 100)
         IN  (progress * 100) \div totalWeight

NewJob ==
    [status |-> "QUEUED", current_stage |-> NULL, stage_progress |-> 0,
     overall_progress |-> 0, workflow_id |-> NULL, finished_at |-> NULL,
     attempt |-> 0, last_error_id |-> 0, lock_version |-> 0,
     idempotency_key |-> NULL]

IsRetryable(code) == code \in {"S3_TIMEOUT", "NETWORK_ERROR"}

ClassifyError(code) == IF IsRetryable(code) THEN "RETRYABLE" ELSE "FATAL"

-----------------------------------------------------------------------------
(* JobRepository: each operation is one SQL statement on the table t *)

\* GetByIdempotencyKey: the ids of the rows WHERE idempotency_key = key
GetByIdempotencyKey(t, key) == {id \in DOMAIN t : t[id].idempotency_key = key}

\* idx_conversion_jobs_idempotency_key: UNIQUE (idempotency_key)
\* WHERE idempotency_key IS NOT NULL
ViolatesUniqueIndex(t, row) ==
    row.idempotency_key # NULL /\ GetByIdempotencyKey(t, row.idempotency_key) # {}

\* INSERT INTO conversion_jobs: an error, and no row, on a unique violation
Create(t, row) == IF ViolatesUniqueIndex(t, row) THEN t ELSE Append(t, row)

UpdateProgress(t, id, stage, stageProgress, overallProgress) ==
    IF id \in DOMAIN t
    THEN [t EXCEPT ![id].current_stage = stage,
                   ![id].stage_progress = stageProgress,
                   ![id].overall_progress = overallProgress]
    ELSE t

UpdateStatus(t, id, status) ==
    IF id \in DOMAIN t THEN [t EXCEPT ![id].status = status] ELSE t

SetFinished(t, id, status) ==
    IF id \in DOMAIN t
    THEN [t EXCEPT ![id].status = status,
                   ![id].finished_at = "SET",
                   ![id].overall_progress =
                       IF status = "COMPLETED" THEN 100 ELSE @]
    ELSE t

SetWorkflowID(t, id, workflowID) ==
    IF id \in DOMAIN t THEN [t EXCEPT ![id].workflow_id = workflowID] ELSE t

\* an UPDATE whose WHERE clause names the id alone
UpdateMatchesNoLock(t, id, j) == id \in DOMAIN t

\* UPDATE ... SET <all columns of j>, lock_version = lock_version + 1
\* WHERE id = $1 AND lock_version = $17
UpdateMatches(t, id, j) == id \in DOMAIN t /\ t[id].lock_version = j.lock_version

Update(t, id, j) ==
    IF UpdateMatches(t, id, j)
    THEN [t EXCEPT ![id] = [j EXCEPT !.lock_version = t[id].lock_version + 1]]
    ELSE t

\* ErrorRepository.Create: insert the row, then patch last_error_id
ErrorCreate(errs, row) == Append(errs, row)

SetLastError(t, id, errorID) ==
    IF id \in DOMAIN t THEN [t EXCEPT ![id].last_error_id = errorID] ELSE t

\* Activities.updateProgress: the values written depend only on the arguments
updateProgress(t, id, stage, stageProgress) ==
    UpdateProgress(t, id, stage, stageProgress,
                   CalculateOverallProgress(stage, stageProgress))

-----------------------------------------------------------------------------
(* worker: the activities registered with the Temporal worker *)

RegisteredActivities ==
    {"ExtractMetadata", "ValidateInputs", "Transcode", "ExtractSubtitles",
     "GenerateThumbnails", "SegmentHLS", "UploadArtifacts", "Cleanup"}

\* the activity name the workflow passes to ExecuteActivity for each stage
ActivityName(stage) ==
    CASE stage = "METADATA_EXTRACTION"   -> "ExtractMetadata"
      [] stage = "VALIDATION"            -> "ValidateInputs"
      [] stage = "TRANSCODING"           -> "Transcode"
      [] stage = "SUBTITLES_EXTRACTION"  -> "ExtractSubtitles"
      [] stage = "THUMBNAILS_GENERATION" -> "GenerateThumbnails"
      [] stage = "HLS_SEGMENTATION"      -> "SegmentHLS"
      [] stage = "UPLOADING"             -> "UploadArtifacts"
      [] stage = "CLEANUP"               -> "Cleanup"

\* a retry policy that gives every stage six attempts
MaximumAttemptsSix(stage, disconnected) == 6

\* RetryPolicy.MaximumAttempts of the context a stage is executed with
MaximumAttempts(stage, disconnected) ==
    CASE stage = "TRANSCODING"                -> 2
      [] stage = "UPLOADING"                  -> 5
      [] stage = "CLEANUP" /\ disconnected    -> 1
      [] OTHER                                -> 3

-----------------------------------------------------------------------------
(* stage activities *)

NoAct == [stage |-> NULL, attempt |-> 0, pc |-> "none", mid |-> FALSE,
          disconnected |-> FALSE]

FirstPc(stage) == IF stage = "METADATA_EXTRACTION" THEN "status" ELSE "begin"

NewAct(stage, disconnected) ==
    [stage |-> stage, attempt |-> 1, pc |-> FirstPc(stage), mid |-> FALSE,
     disconnected |-> disconnected]

Running(a) == a.pc \notin {"none", "ok", "err"}

\* the codes a stage passes to recordError
StageErrorCodes(stage) ==
    CASE stage = "METADATA_EXTRACTION"   -> {"S3_NOT_FOUND", "FFPROBE_FAILED"}
      [] stage = "VALIDATION"            -> {"UNSUPPORTED_FORMAT", "INSUFFICIENT_DISK",
                                             "S3_ACCESS_DENIED"}
      [] stage = "TRANSCODING"           -> {"FFMPEG_FAILED"}
      [] stage = "THUMBNAILS_GENERATION" -> {"FFMPEG_FAILED"}
      [] stage = "HLS_SEGMENTATION"      -> {"FFMPEG_FAILED"}
      [] stage = "UPLOADING"             -> {"NETWORK_ERROR"}
      [] OTHER                           -> {}

\* stages that also return errors they do not record ("failed to get job")
ReturnsPlainError(stage) ==
    stage \in {"METADATA_EXTRACTION", "TRANSCODING", "SUBTITLES_EXTRACTION",
               "THUMBNAILS_GENERATION", "HLS_SEGMENTATION", "UPLOADING"}

StageFailures(stage) ==
    StageErrorCodes(stage) \cup (IF ReturnsPlainError(stage) THEN {"UNRECORDED"} ELSE {})

\* an intermediate stage_progress value the stage reports while it works
MidProgress(stage) == IF stage = "THUMBNAILS_GENERATION" THEN 80 ELSE 50

ReportsMidProgress(stage) == stage # "CLEANUP"

\* a recordError that returns every error as it got it
NonRetryableNever(code) == FALSE

\* Activities.recordError: insert the error row, patch last_error_id; a FATAL
\* class makes the returned error non-retryable
NonRetryable(code) == code # "UNRECORDED" /\ ClassifyError(code) = "FATAL"

\* the execution after an attempt failed with `code`
AfterFailure(a, code, mayRetry) ==
    IF mayRetry /\ ~NonRetryable(code)
       /\ a.attempt < MaximumAttempts(a.stage, a.disconnected)
    THEN [a EXCEPT !.attempt = a.attempt + 1, !.pc = FirstPc(a.stage), !.mid = FALSE]
    ELSE [a EXCEPT !.pc = "err"]

\* ExtractMetadata: jobRepo.UpdateStatus(RUNNING)
ActUpdateStatus(a, an) ==
    /\ a.pc = "status"
    /\ jobs' = UpdateStatus(jobs, JobID, "RUNNING")
    /\ jobsActive' = jobsActive + 1
    /\ an = [a EXCEPT !.pc = "begin"]
    /\ UNCHANGED <<errors, workspaceExists>>

\* every stage: updateProgress(stage, 0)
ActBegin(a, an) ==
    /\ a.pc = "begin"
    /\ jobs' = updateProgress(jobs, JobID, a.stage, 0)
    /\ an = [a EXCEPT !.pc = IF a.stage \in {"METADATA_EXTRACTION", "CLEANUP"}
                                THEN "fs" ELSE "work"]
    /\ UNCHANGED <<errors, workspaceExists, jobsActive>>

\* ExtractMetadata: workspace.Create(); Cleanup: workspace.Cleanup()
ActWorkspace(a, an) ==
    /\ a.pc = "fs"
    /\ workspaceExists' = (a.stage = "METADATA_EXTRACTION")
    /\ an = [a EXCEPT !.pc = "work"]
    /\ UNCHANGED <<jobs, errors, jobsActive>>

\* a progress callback: updateProgress(stage, p)
ActProgress(a, an) ==
    /\ a.pc = "work"
    /\ ReportsMidProgress(a.stage)
    /\ ~a.mid
    /\ jobs' = updateProgress(jobs, JobID, a.stage, MidProgress(a.stage))
    /\ an = [a EXCEPT !.mid = TRUE]
    /\ UNCHANGED <<errors, workspaceExists, jobsActive>>

\* the attempt returns an error
ActFail(a, an, mayRetry) ==
    /\ a.pc = "work"
    /\ \E code \in StageFailures(a.stage) :
          /\ IF code = "UNRECORDED"
             THEN UNCHANGED <<jobs, errors>>
             ELSE /\ errors' = ErrorCreate(errors,
                                   [job_id |-> JobID, stage |-> a.stage,
                                    class |-> ClassifyError(code), code |-> code])
                  /\ jobs' = SetLastError(jobs, JobID, Len(errors) + 1)
          /\ an = AfterFailure(a, code, mayRetry)
    /\ UNCHANGED <<workspaceExists, jobsActive>>

\* the attempt succeeds: updateProgress(stage, 100) and return; Cleanup's
\* deferred DecrementJobsActive runs at its return
ActComplete(a, an) ==
    /\ a.pc = "work"
    /\ jobs' = updateProgress(jobs, JobID, a.stage, 100)
    /\ jobsActive' = IF a.stage = "CLEANUP" THEN jobsActive - 1 ELSE jobsActive
    /\ an = [a EXCEPT !.pc = "ok"]
    /\ UNCHANGED <<errors, workspaceExists>>

\* a step of the activity the workflow is waiting for
ActivityStep ==
    /\ Running(act)
    /\ \/ ActUpdateStatus(act, act')
       \/ ActBegin(act, act')
       \/ ActWorkspace(act, act')
       \/ ActProgress(act, act')
       \/ ActFail(act, act', TRUE)
       \/ ActComplete(act, act')
    /\ UNCHANGED <<apiVars, wfVars, zombie, histVars, updVars, idemVars, upVars,
                   errVars, pureVars, opsVars, newVars>>

\* a step of an activity whose result the workflow no longer waits for: it was
\* requested to cancel, so a failure is not retried
ZombieStep ==
    /\ Running(zombie)
    /\ \/ ActUpdateStatus(zombie, zombie')
       \/ ActBegin(zombie, zombie')
       \/ ActWorkspace(zombie, zombie')
       \/ ActProgress(zombie, zombie')
       \/ ActFail(zombie, zombie', FALSE)
       \/ ActComplete(zombie, zombie')
    /\ UNCHANGED <<apiVars, wfVars, act, histVars, updVars, idemVars, upVars,
                   errVars, pureVars, opsVars, newVars>>

\* the abandoned activity ends (it returned, or saw ctx.Done() and gave up)
ZombieStop ==
    /\ zombie # NoAct
    /\ zombie' = NoAct
    /\ jobsActive' = IF zombie.stage = "CLEANUP" /\ Running(zombie)
                      THEN jobsActive - 1 ELSE jobsActive
    /\ UNCHANGED <<jobs, errors, apiVars, wfVars, act, workspaceExists, histVars,
                   updVars, idemVars, upVars, errVars, pureVars, opsVars, newVars>>

-----------------------------------------------------------------------------
(* Handler.CreateJob *)

\* jobRepo.Create(job)
CreateJobInsert ==
    /\ createPc = "insert"
    /\ jobs' = Create(jobs, NewJob)
    /\ createPc' = "start"
    /\ UNCHANGED <<errors, cancelPc, cancelsLeft, cancelIssued, wfVars, act, zombie,
                   workspaceExists, histVars, updVars, extVars>>

\* temporalClient.ExecuteWorkflow: the workflow starts and runs up to its
\* first ExecuteActivity
CreateJobStartWorkflow ==
    /\ createPc = "start"
    /\ wfPc = "idle"
    /\ wfPc' = "exec"
    /\ wfStage' = 1
    /\ output' = "RUNNING"
    /\ createPc' = "setid"
    /\ UNCHANGED <<jobs, errors, cancelPc, cancelsLeft, cancelIssued, cancelled,
                   signalPending, ctxCancelled, act, zombie, workspaceExists,
                   histVars, updVars, extVars>>

\* temporalClient.ExecuteWorkflow returns an error: the handler logs it,
\* answers 500 "failed to start workflow" and returns
CreateJobStartWorkflowFailed ==
    /\ createPc = "start"
    /\ wfPc = "idle"
    /\ createPc' = "failed"
    /\ UNCHANGED <<jobs, errors, cancelPc, cancelsLeft, cancelIssued, wfVars, act, zombie,
                   workspaceExists, histVars, updVars, extVars>>

\* jobRepo.SetWorkflowID(job.ID, workflowRun.GetID())
CreateJobSetWorkflowID ==
    /\ createPc = "setid"
    /\ jobs' = SetWorkflowID(jobs, JobID, "SET")
    /\ createPc' = "done"
    /\ UNCHANGED <<errors, cancelPc, cancelsLeft, cancelIssued, wfVars, act, zombie,
                   workspaceExists, histVars, updVars, extVars>>

-----------------------------------------------------------------------------
(* Handler.CancelJob *)

WorkflowOpen == wfPc \notin {"idle", "done"}

\* the statuses for which CancelJob answers "job cannot be cancelled"
CannotBeCancelled(status) == status \in {"COMPLETED", "CANCELED"}

\* jobRepo.GetByID and the status check
CancelJobRead ==
    /\ cancelPc = "idle"
    /\ cancelsLeft > 0
    /\ cancelsLeft' = cancelsLeft - 1
    /\ IF JobID \notin DOMAIN jobs \/ CannotBeCancelled(jobs[JobID].status)
       THEN UNCHANGED <<cancelPc, cancelIssued>>
       ELSE /\ cancelPc' = IF jobs[JobID].workflow_id # NULL THEN "signal" ELSE "finish"
            /\ cancelIssued' = (cancelIssued \/ jobs[JobID].status \in {"QUEUED", "RUNNING"})
    /\ UNCHANGED <<jobs, errors, createPc, wfVars, act, zombie, workspaceExists,
                   histVars, updVars, extVars>>

\* temporalClient.SignalWorkflow(workflowID, "cancel"): an error is only logged
CancelJobSignal ==
    /\ cancelPc = "signal"
    /\ signalPending' = (signalPending \/ WorkflowOpen)
    /\ cancelPc' = "cancelwf"
    /\ UNCHANGED <<jobs, errors, createPc, cancelsLeft, cancelIssued, wfPc, wfStage,
                   cancelled, ctxCancelled, output, act, zombie, workspaceExists,
                   histVars, updVars, extVars>>

\* temporalClient.CancelWorkflow(workflowID): an error is only logged
CancelJobCancelWorkflow ==
    /\ cancelPc = "cancelwf"
    /\ ctxCancelled' = (ctxCancelled \/ WorkflowOpen)
    /\ cancelPc' = "finish"
    /\ UNCHANGED <<jobs, errors, createPc, cancelsLeft, cancelIssued, wfPc, wfStage,
                   cancelled, signalPending, output, act, zombie, workspaceExists,
                   histVars, updVars, extVars>>

\* jobRepo.SetFinished(jobID, CANCELED)
CancelJobSetFinished ==
    /\ cancelPc = "finish"
    /\ jobs' = SetFinished(jobs, JobID, "CANCELED")
    /\ cancelPc' = "idle"
    /\ UNCHANGED <<errors, createPc, cancelsLeft, cancelIssued, wfVars, act, zombie,
                   workspaceExists, histVars, updVars, extVars>>

-----------------------------------------------------------------------------
(* VideoConversionWorkflow *)

\* a workflow that returns FAILED on a subtitles error
IgnoresErrorStrict(stage) == stage \in {"THUMBNAILS_GENERATION", "CLEANUP"}

\* stages whose error the workflow logs and ignores
IgnoresError(stage) ==
    stage \in {"SUBTITLES_EXTRACTION", "THUMBNAILS_GENERATION", "CLEANUP"}

\* stages followed by `if checkCancelled()`
ChecksCancelAfter(stage) == stage \notin {"UPLOADING", "CLEANUP"}

\* the stage the workflow executes after stage number i
NextStage(i) == i + 1

\* the workflow's reaction to the result of ExecuteActivity(...).Get for a stage
StageReturned(stage, ok) ==
    /\ failedStages' = IF ok THEN failedStages ELSE failedStages \cup {stage}
    /\ IF ~ok /\ ~IgnoresError(stage)
       THEN /\ output' = "FAILED"
            /\ wfPc' = "finalize"
            /\ UNCHANGED wfStage
       ELSE IF stage = "CLEANUP"
       THEN /\ output' = "COMPLETED"
            /\ wfPc' = "finalize"
            /\ UNCHANGED wfStage
       ELSE IF ChecksCancelAfter(stage)
       THEN /\ wfPc' = "check"
            /\ UNCHANGED <<output, wfStage>>
       ELSE /\ wfPc' = "exec"
            /\ wfStage' = NextStage(wfStage)
            /\ UNCHANGED output

\* workflow.ExecuteActivity(ctx, name, ...): on a cancelled context, or for a
\* name no worker has registered, Get returns an error and no activity runs
WfExecuteActivity ==
    /\ wfPc = "exec"
    /\ LET stage == AllStages[wfStage] IN
       IF ctxCancelled \/ ActivityName(stage) \notin RegisteredActivities
       THEN /\ StageReturned(stage, FALSE)
            /\ UNCHANGED <<act, startOrder>>
       ELSE /\ act' = NewAct(stage, FALSE)
            /\ startOrder' = Append(startOrder, stage)
            /\ wfPc' = "wait"
            /\ UNCHANGED <<wfStage, output, failedStages>>
    /\ UNCHANGED <<jobs, errors, apiVars, cancelled, signalPending, ctxCancelled,
                   zombie, workspaceExists, finishedStages, finalized, updVars, extVars>>

\* Get returns the activity's result
WfGetResult ==
    /\ wfPc = "wait"
    /\ act.pc \in {"ok", "err"}
    /\ StageReturned(act.stage, act.pc = "ok")
    /\ finishedStages' = finishedStages \cup {act.stage}
    /\ act' = NoAct
    /\ UNCHANGED <<jobs, errors, apiVars, cancelled, signalPending, ctxCancelled,
                   zombie, workspaceExists, startOrder, finalized, updVars, extVars>>

\* Get returns CanceledError as soon as the context is cancelled; the activity
\* itself goes on until it notices
WfGetCanceled ==
    /\ wfPc = "wait"
    /\ ctxCancelled
    /\ Running(act)
    /\ StageReturned(act.stage, FALSE)
    /\ zombie' = act
    /\ act' = NoAct
    /\ UNCHANGED <<jobs, errors, apiVars, cancelled, signalPending, ctxCancelled,
                   workspaceExists, startOrder, finishedStages, finalized, updVars, extVars>>

\* a workflow that notes the signal and goes on with the next stage
WfCheckCancelledGoesOn ==
    /\ wfPc = "check"
    /\ cancelled' = (cancelled \/ signalPending)
    /\ signalPending' = FALSE
    /\ wfPc' = "exec"
    /\ wfStage' = NextStage(wfStage)
    /\ UNCHANGED <<jobs, errors, apiVars, ctxCancelled, output, act, zombie,
                   workspaceExists, histVars, updVars, extVars>>

\* checkCancelled(): drain the signal channel, return `cancelled`
WfCheckCancelled ==
    /\ wfPc = "check"
    /\ cancelled' = (cancelled \/ signalPending)
    /\ signalPending' = FALSE
    /\ IF cancelled'
       THEN wfPc' = "hc_exec" /\ UNCHANGED wfStage
       ELSE wfPc' = "exec" /\ wfStage' = NextStage(wfStage)
    /\ UNCHANGED <<jobs, errors, apiVars, ctxCancelled, output, act, zombie,
                   workspaceExists, histVars, updVars, extVars>>

\* handleCancellation: Cleanup on a disconnected context
WfHandleCancellation ==
    /\ wfPc = "hc_exec"
    /\ act' = NewAct("CLEANUP", TRUE)
    /\ startOrder' = Append(startOrder, "CLEANUP")
    /\ wfPc' = "hc_wait"
    /\ UNCHANGED <<jobs, errors, apiVars, wfStage, cancelled, signalPending,
                   ctxCancelled, output, zombie, workspaceExists, finishedStages,
                   failedStages, finalized, updVars, extVars>>

\* handleCancellation: after Cleanup returned, output.Status = CANCELED
WfHandleCancellationDone ==
    /\ wfPc = "hc_wait"
    /\ act.pc \in {"ok", "err"}
    /\ act' = NoAct
    /\ finishedStages' = finishedStages \cup {"CLEANUP"}
    /\ output' = "CANCELED"
    /\ wfPc' = "finalize"
    /\ UNCHANGED <<jobs, errors, apiVars, wfStage, cancelled, signalPending,
                   ctxCancelled, zombie, workspaceExists, startOrder, failedStages,
                   finalized, updVars, extVars>>

\* Activities.FinalizeJob(input): SetFinished, and an error row for FAILED
FinalizeJobRows(t, status) == SetFinished(t, JobID, status)

\* the deferred function: ExecuteActivity(finalizeCtx, "FinalizeJob", ...).Get,
\* whose error is dropped
WfFinalize ==
    /\ wfPc = "finalize"
    /\ wfPc' = "done"
    /\ IF "FinalizeJob" \in RegisteredActivities
       THEN /\ finalized' = TRUE
            /\ IF output = "FAILED"
               THEN /\ errors' = ErrorCreate(errors,
                                     [job_id |-> JobID, stage |-> "UNKNOWN",
                                      class |-> "FATAL", code |-> "WORKFLOW_FAILED"])
                    /\ jobs' = SetLastError(FinalizeJobRows(jobs, output), JobID,
                                            Len(errors) + 1)
               ELSE /\ jobs' = FinalizeJobRows(jobs, output)
                    /\ UNCHANGED errors
       ELSE UNCHANGED <<jobs, errors, finalized>>
    /\ UNCHANGED <<apiVars, wfStage, cancelled, signalPending, ctxCancelled, output,
                   act, zombie, workspaceExists, startOrder, finishedStages,
                   failedStages, updVars, extVars>>

-----------------------------------------------------------------------------
(* Handler.CreateJob under requests that carry an idempotency key *)

IdempotencyKeys == {"k1", "k2"}

NoRequest == [pc |-> "idle", key |-> NULL, job_id |-> 0, http |-> 0]

\* a request arrives; req.IdempotencyKey # ""
AdmReceive(c) ==
    /\ adm[c].pc = "idle"
    /\ \E key \in IdempotencyKeys :
          adm' = [adm EXCEPT ![c].pc = "lookup", ![c].key = key]
    /\ UNCHANGED <<jobs, started, coreVars, updVars, opsVars, auxVars, upVars, errVars, pureVars>>

\* jobRepo.GetByIdempotencyKey: an existing job is answered with 200
AdmLookup(c) ==
    /\ adm[c].pc = "lookup"
    /\ LET found == GetByIdempotencyKey(jobs, adm[c].key) IN
       IF found # {}
       THEN adm' = [adm EXCEPT ![c].pc = "done", ![c].http = 200,
                               ![c].job_id = CHOOSE id \in found : TRUE]
       ELSE adm' = [adm EXCEPT ![c].pc = "create"]
    /\ UNCHANGED <<jobs, started, coreVars, updVars, opsVars, auxVars, upVars, errVars, pureVars>>

\* jobRepo.Create(job): an error is answered with 500 "failed to create job"
AdmCreate(c) ==
    /\ adm[c].pc = "create"
    /\ LET row == [NewJob EXCEPT !.idempotency_key = adm[c].key] IN
       /\ jobs' = Create(jobs, row)
       /\ IF ViolatesUniqueIndex(jobs, row)
          THEN adm' = [adm EXCEPT ![c].pc = "done", ![c].http = 500]
          ELSE adm' = [adm EXCEPT ![c].pc = "start", ![c].job_id = Len(jobs) + 1]
    /\ UNCHANGED <<started, coreVars, updVars, opsVars, auxVars, upVars, errVars, pureVars>>

\* temporalClient.ExecuteWorkflow with ID "video-conversion-" + job.ID
AdmStartWorkflow(c) ==
    /\ adm[c].pc = "start"
    /\ started' = started \cup {adm[c].job_id}
    /\ adm' = [adm EXCEPT ![c].pc = "setid"]
    /\ UNCHANGED <<jobs, coreVars, updVars, opsVars, auxVars, upVars, errVars, pureVars>>

\* jobRepo.SetWorkflowID, then 201 with the new job's id
AdmSetWorkflowID(c) ==
    /\ adm[c].pc = "setid"
    /\ jobs' = SetWorkflowID(jobs, adm[c].job_id, "SET")
    /\ adm' = [adm EXCEPT ![c].pc = "done", ![c].http = 201]
    /\ UNCHANGED <<started, coreVars, updVars, opsVars, auxVars, upVars, errVars, pureVars>>

-----------------------------------------------------------------------------
(* Activities.UploadArtifacts and DirectoryUploader.UploadDirectory *)

\* the directories UploadArtifacts uploads, in its order
UploadDirs == <<"hls", "thumbs", "subtitles", "meta">>

VideoIDs == {NULL, "video"}

\* prefix = videoID/jobID with videoID = job.VideoID, or the job id when nil
UploadPrefix(videoID, jobID) == <<IF videoID = NULL THEN jobID ELSE videoID, jobID>>

\* a key that also carries the attempt that wrote it
KeyPerAttempt(videoID, jobID, subdir, file) ==
    UploadPrefix(videoID, jobID) \o <<subdir, file, ua.attempt>>

\* filepath.Join(prefix + "/" + subdir, relPath)
Key(videoID, jobID, subdir, file) == UploadPrefix(videoID, jobID) \o <<subdir, file>>

\* the stage_progress a progress callback of a directory reports; 0 - 1 for
\* the directory that is uploaded with a nil callback
DirProgress(dir, completedFiles, totalFiles) ==
    CASE UploadDirs[dir] = "hls"       -> (completedFiles * 50) \div totalFiles
      [] UploadDirs[dir] = "thumbs"    -> 50 + (completedFiles * 30) \div totalFiles
      [] UploadDirs[dir] = "subtitles" -> 80 + (completedFiles * 10) \div totalFiles
      [] OTHER                         -> 0 - 1

NoReturn == [dir |-> 0, err |-> FALSE, artifacts |-> {}, failures |-> 0,
             unfinished |-> 0]

Finished(g) == {f \in DOMAIN g : g[f] \in {"none", "ok", "err"}}

InFlight(g) == {f \in DOMAIN g : g[f] = "uploading"}

\* a semaphore that always has a free slot
SlotFreeAlways(n) == TRUE

\* `sem <- struct{}{}` can proceed: the buffer of make(chan struct{},
\* maxConcurrent) is not full (nothing ever receives from sem but the
\* goroutines that sent)
SlotFree(n) == n < ua.maxConcurrent

\* a return that waits for no goroutine
WaitNone(g) == TRUE

\* wg.Wait()
WaitGroupDone(g) == Finished(g) = DOMAIN g

\* the workspaces: up to NumFiles segments and thumbnails, at most one
\* subtitle file and one metadata file
Trees ==
    {t \in [DOMAIN UploadDirs -> 0..NumFiles] :
        \A d \in DOMAIN UploadDirs : UploadDirs[d] \in {"subtitles", "meta"} => t[d] <= 1}

\* the attempts of UploadArtifacts the model follows
UploadAttempts == IF MaxUploadAttempts < MaximumAttempts("UPLOADING", FALSE)
                  THEN MaxUploadAttempts ELSE MaximumAttempts("UPLOADING", FALSE)

\* the earlier stages left files in the workspace; the job has its video_id;
\* the worker has loaded MAX_PARALLEL_UPLOADS, which Validate does not look at
UpWorkspace ==
    /\ ua.pc = "idle"
    /\ tree' \in Trees
    /\ \E v \in VideoIDs, n \in 0..MaxParallelUploads :
          ua' = [ua EXCEPT !.pc = "begin", !.attempt = 1, !.video_id = v,
                           !.maxConcurrent = n]
    /\ UNCHANGED <<jobs, coreVars, updVars, opsVars, auxVars, idemVars, errVars, pureVars, dirVars, allArtifacts, upCtxDone,
                   objects, artifactRows, lastReturn>>

\* an attempt starts: updateProgress(UPLOADING, 0), GetByID, the prefix
UpBegin ==
    /\ ua.pc = "begin"
    /\ jobs' = updateProgress(jobs, JobID, "UPLOADING", 0)
    /\ ua' = [ua EXCEPT !.pc = "spawn", !.dir = 1]
    /\ allArtifacts' = {}
    /\ UNCHANGED <<coreVars, updVars, opsVars, auxVars, idemVars, errVars, pureVars, tree, dirVars, upCtxDone, objects,
                   artifactRows, lastReturn>>

\* UploadDirectory: walk the directory, start one goroutine per file
UpSpawn ==
    /\ ua.pc = "spawn"
    /\ gor' = [f \in 1..NumFiles |-> IF f <= tree[ua.dir] THEN "waiting" ELSE "none"]
    /\ sem' = 0
    /\ errChan' = 0
    /\ dirArtifacts' = {}
    /\ ua' = [ua EXCEPT !.pc = "wait"]
    /\ UNCHANGED <<jobs, coreVars, updVars, opsVars, auxVars, idemVars, errVars, pureVars, tree, allArtifacts, upCtxDone,
                   objects, artifactRows, lastReturn>>

\* the activity context is cancelled
UpCancel ==
    /\ ua.pc \in {"spawn", "wait", "batch"}
    /\ ~upCtxDone
    /\ upCtxDone' = TRUE
    /\ UNCHANGED <<jobs, coreVars, updVars, opsVars, auxVars, idemVars, errVars, pureVars, tree, ua, dirVars, allArtifacts,
                   objects, artifactRows, lastReturn>>

\* goroutine: case <-ctx.Done(): errChan <- ctx.Err()
GorCtxDone(f) ==
    /\ gor[f] = "waiting"
    /\ upCtxDone
    /\ gor' = [gor EXCEPT ![f] = "err"]
    /\ errChan' = errChan + 1
    /\ UNCHANGED <<jobs, coreVars, updVars, opsVars, auxVars, idemVars, errVars, pureVars, tree, ua, sem, dirArtifacts,
                   allArtifacts, upCtxDone, objects, artifactRows, lastReturn>>

\* goroutine: case sem <- struct{}{}
GorAcquire(f) ==
    /\ gor[f] = "waiting"
    /\ SlotFree(sem)
    /\ sem' = sem + 1
    /\ gor' = [gor EXCEPT ![f] = "uploading"]
    /\ UNCHANGED <<jobs, coreVars, updVars, opsVars, auxVars, idemVars, errVars, pureVars, tree, ua, errChan, dirArtifacts,
                   allArtifacts, upCtxDone, objects, artifactRows, lastReturn>>

\* goroutine: client.Upload succeeded; append the artifact, report progress,
\* release the slot
GorUploaded(f) ==
    /\ gor[f] = "uploading"
    /\ LET key == Key(ua.video_id, JobID, UploadDirs[ua.dir], f)
           completedFiles == Cardinality({g \in DOMAIN gor : gor[g] = "ok"}) + 1
           progress == DirProgress(ua.dir, completedFiles, tree[ua.dir])
       IN  /\ objects' = objects \cup {[dir |-> ua.dir, file |-> f, key |-> key]}
           /\ dirArtifacts' = dirArtifacts \cup {key}
           /\ jobs' = IF progress >= 0
                       THEN updateProgress(jobs, JobID, "UPLOADING", progress)
                       ELSE jobs
    /\ gor' = [gor EXCEPT ![f] = "ok"]
    /\ sem' = sem - 1
    /\ UNCHANGED <<coreVars, updVars, opsVars, auxVars, idemVars, errVars, pureVars, tree, ua, errChan, allArtifacts,
                   upCtxDone, artifactRows, lastReturn>>

\* a goroutine that appends the artifact although client.Upload failed
GorUploadFailedAppends(f) ==
    /\ gor[f] = "uploading"
    /\ gor' = [gor EXCEPT ![f] = "ok"]
    /\ dirArtifacts' = dirArtifacts \cup {Key(ua.video_id, JobID, UploadDirs[ua.dir], f)}
    /\ sem' = sem - 1
    /\ UNCHANGED <<jobs, coreVars, updVars, opsVars, auxVars, idemVars, errVars, pureVars, tree, ua, errChan,
                   allArtifacts, upCtxDone, objects, artifactRows, lastReturn>>

\* goroutine: client.Upload failed: errChan <- err, release the slot
GorUploadFailed(f) ==
    /\ gor[f] = "uploading"
    /\ gor' = [gor EXCEPT ![f] = "err"]
    /\ errChan' = errChan + 1
    /\ sem' = sem - 1
    /\ UNCHANGED <<jobs, coreVars, updVars, opsVars, auxVars, idemVars, errVars, pureVars, tree, ua, dirArtifacts,
                   allArtifacts, upCtxDone, objects, artifactRows, lastReturn>>

\* the attempt of UploadArtifacts ends with an error
UpAttemptFailed(a) ==
    IF ~upCtxDone /\ a.attempt < UploadAttempts
    THEN [a EXCEPT !.pc = "begin", !.attempt = a.attempt + 1]
    ELSE [a EXCEPT !.pc = "failed"]

\* UploadDirectory returns after wg.Wait(): (nil, err) if errChan holds an
\* error, the artifacts otherwise; UploadArtifacts fails on the error of the
\* hls directory and only logs the error of the others
UpDirReturn ==
    /\ ua.pc = "wait"
    /\ WaitGroupDone(gor)
    /\ LET err == errChan > 0
           artifacts == IF err THEN {} ELSE dirArtifacts
       IN  /\ lastReturn' = [dir |-> ua.dir, err |-> err, artifacts |-> artifacts,
                             failures |-> Cardinality({f \in DOMAIN gor : gor[f] = "err"}),
                             unfinished |-> Cardinality(DOMAIN gor \ Finished(gor))]
           /\ allArtifacts' = allArtifacts \cup artifacts
           /\ IF err /\ UploadDirs[ua.dir] = "hls"
              THEN /\ errors' = ErrorCreate(errors,
                                    [job_id |-> JobID, stage |-> "UPLOADING",
                                     class |-> ClassifyError("NETWORK_ERROR"),
                                     code |-> "NETWORK_ERROR"])
                   /\ jobs' = SetLastError(jobs, JobID, Len(errors) + 1)
                   /\ ua' = UpAttemptFailed(ua)
              ELSE /\ ua' = IF ua.dir < Len(UploadDirs)
                            THEN [ua EXCEPT !.pc = "spawn", !.dir = ua.dir + 1]
                            ELSE [ua EXCEPT !.pc = "batch"]
                   /\ UNCHANGED <<jobs, errors>>
    /\ UNCHANGED <<apiVars, wfVars, act, zombie, workspaceExists, histVars, updVars, opsVars, auxVars,
                   idemVars, errVars, pureVars, tree, dirVars, upCtxDone, objects,
                   artifactRows>>

\* ArtifactRepository.CreateBatch: one INSERT per artifact in a transaction;
\* the id is the uuid NewArtifact made, here the attempt and the key; the
\* table has no unique constraint besides the id
CreateBatch(rows, keys) ==
    rows \cup {[id |-> <<ua.attempt, k>>, job_id |-> JobID, key |-> k] : k \in keys}

\* artifactRepo.CreateBatch(allArtifacts) commits, then updateProgress(100)
UpCreateBatch ==
    /\ ua.pc = "batch"
    /\ artifactRows' = CreateBatch(artifactRows, allArtifacts)
    /\ jobs' = updateProgress(jobs, JobID, "UPLOADING", 100)
    /\ ua' = [ua EXCEPT !.pc = "done"]
    /\ UNCHANGED <<coreVars, updVars, opsVars, auxVars, idemVars, errVars, pureVars, tree, dirVars, allArtifacts, upCtxDone,
                   objects, lastReturn>>

\* artifactRepo.CreateBatch fails: the transaction is rolled back
UpCreateBatchFailed ==
    /\ ua.pc = "batch"
    /\ ua' = UpAttemptFailed(ua)
    /\ UNCHANGED <<jobs, coreVars, updVars, opsVars, auxVars, idemVars, errVars, pureVars, tree, dirVars, allArtifacts,
                   upCtxDone, objects, artifactRows, lastReturn>>

\* the batch is committed but the attempt does not end in success: the reply
\* to COMMIT is lost, or the worker stops before the result is reported; the
\* retry policy schedules the next attempt
UpCommitUnacknowledged ==
    /\ ua.pc = "batch"
    /\ artifactRows' = CreateBatch(artifactRows, allArtifacts)
    /\ ua' = UpAttemptFailed(ua)
    /\ UNCHANGED <<jobs, coreVars, updVars, opsVars, auxVars, idemVars, errVars, pureVars, tree,
                   dirVars, allArtifacts, upCtxDone, objects, lastReturn>>

-----------------------------------------------------------------------------
(* callers of ErrorRepository.Create for one job *)

ErrorCodes == {"NETWORK_ERROR", "FFMPEG_FAILED"}

\* Create: INSERT INTO conversion_errors
ErrInsert(w) ==
    /\ ew[w].pc = "idle"
    /\ ew[w].calls < MaxErrorCalls
    /\ \E code \in ErrorCodes :
          errors' = ErrorCreate(errors, [job_id |-> JobID, stage |-> "UPLOADING",
                                         class |-> ClassifyError(code), code |-> code])
    /\ ew' = [ew EXCEPT ![w].pc = "patch", ![w].error_id = Len(errors) + 1,
                        ![w].calls = @ + 1]
    /\ UNCHANGED <<jobs, apiVars, wfVars, act, zombie, workspaceExists, histVars,
                   updVars, opsVars, auxVars, idemVars, upVars, pureVars>>

\* Create: UPDATE conversion_jobs SET last_error_id = $2 WHERE id = $1
ErrPatch(w) ==
    /\ ew[w].pc = "patch"
    /\ jobs' = SetLastError(jobs, JobID, ew[w].error_id)
    /\ ew' = [ew EXCEPT ![w].pc = "idle"]
    /\ UNCHANGED <<coreVars, updVars, opsVars, auxVars, idemVars, upVars, pureVars>>

-----------------------------------------------------------------------------
(* FilterQualitiesForResolution, as Activities.Transcode calls it *)

Qualities == {"480p", "576p", "720p", "1080p", "1440p", "2160p", "origin", "other"}

\* Quality.Params().Height: the zero QualityConfig for a quality with no preset
QualityHeight(q) ==
    CASE q = "480p"  -> 480
      [] q = "576p"  -> 576
      [] q = "720p"  -> 720
      [] q = "1080p" -> 1080
      [] q = "1440p" -> 1440
      [] q = "2160p" -> 2160
      [] OTHER       -> 0

DefaultQualities == <<"480p", "720p", "1080p">>

\* input.Metadata.Height of the sources the model follows
SourceHeights == {0, 240, 479, 480, 576, 719, 720, 1080, 1439, 2160, 4320}

\* the lists of 1..n qualities
RECURSIVE QualityLists(_)
QualityLists(n) ==
    IF n = 0 THEN {}
    ELSE {<<q>> : q \in Qualities}
         \cup {Append(l, q) : l \in QualityLists(n - 1), q \in Qualities}

\* a filter that keeps every requested quality
KeepAll(qualities, sourceHeight) == qualities

FilterQualitiesForResolution(qualities, sourceHeight) ==
    LET Keep(q) == q = "origin" \/ sourceHeight >= QualityHeight(q)
        filtered == SelectSeq(qualities, Keep)
    IN  IF Len(filtered) = 0 /\ Len(qualities) > 0 THEN <<"origin">> ELSE filtered

NoFilter == [pc |-> "idle", qualities |-> <<>>, height |-> 0, filtered |-> <<>>]

\* CreateJob stored the profile (the default one for an empty quality list)
\* and ExtractMetadata measured the source
FilterJob ==
    /\ fq.pc = "idle"
    /\ \E requested \in QualityLists(MaxQualities) \cup {<<>>}, h \in SourceHeights :
          fq' = [fq EXCEPT !.pc = "job",
                           !.qualities = IF Len(requested) = 0 THEN DefaultQualities
                                         ELSE requested,
                           !.height = h]
    /\ UNCHANGED <<jobs, coreVars, updVars, opsVars, auxVars, idemVars, upVars, errVars, mp>>

\* Transcode: qualities := FilterQualitiesForResolution(job.Profile.Qualities,
\* input.Metadata.Height); the outputs are made for exactly these
FilterApply ==
    /\ fq.pc = "job"
    /\ fq' = [fq EXCEPT !.pc = "filtered",
                        !.filtered = FilterQualitiesForResolution(fq.qualities, fq.height)]
    /\ UNCHANGED <<jobs, coreVars, updVars, opsVars, auxVars, idemVars, upVars, errVars, mp>>

-----------------------------------------------------------------------------
(* Client.Upload: sizes and offsets in MiB *)

MinPartSize == 5
DefaultPartSize == 50
MaxParts == 10000
maxRetries == 3

\* stat.Size() of the files the model follows
FileSizes == {0, 1, 4, 5, 6, 49, 50, 51, 100, 149, 499999, 500000, 500001, 500050}

\* partCount := (size + partSize - 1) / partSize, with the default part size
PartCount(size) == (size + DefaultPartSize - 1) \div DefaultPartSize

\* partSize: (size + 9999) / 10000 when the default gives more than 10000 parts
PartSize(size) ==
    IF PartCount(size) > MaxParts
    THEN (size + (MaxParts - 1)) \div MaxParts
    ELSE DefaultPartSize

NoUpload == [pc |-> "idle", size |-> 0, mode |-> NULL, partSize |-> 0,
             partCount |-> 0, partNum |-> 0, next |-> 0, contiguous |-> TRUE,
             retry |-> 0]

\* Upload: open and stat the file, choose uploadSimple or uploadMultipart
MpOpen ==
    /\ mp.pc = "idle"
    /\ \E size \in FileSizes :
          mp' = IF size < MinPartSize
                THEN [mp EXCEPT !.pc = "put", !.size = size, !.mode = "simple"]
                ELSE [mp EXCEPT !.pc = "parts", !.size = size, !.mode = "multipart",
                                !.partSize = PartSize(size),
                                !.partCount = PartCount(size), !.partNum = 1]
    /\ UNCHANGED <<jobs, coreVars, updVars, opsVars, auxVars, idemVars, upVars, errVars, fq>>

\* uploadSimple: one PutObject with the whole file, or its error
MpPutObject ==
    /\ mp.pc = "put"
    /\ \/ mp' = [mp EXCEPT !.pc = "done", !.next = mp.size]
       \/ mp' = [mp EXCEPT !.pc = "failed"]
    /\ UNCHANGED <<jobs, coreVars, updVars, opsVars, auxVars, idemVars, upVars, errVars, fq>>

\* uploadMultipart: the part's buffer; make([]byte, n) panics for a negative n
CurrentPartSize(m) ==
    LET remaining == m.size - (m.partNum - 1) * m.partSize
    IN  IF remaining < m.partSize THEN remaining ELSE m.partSize

\* an upload that gives up a part after maxRetries errors and goes on with
\* the next one
MpPartFailedSkipsPart ==
    /\ mp.pc = "parts"
    /\ mp.partNum <= mp.partCount
    /\ ~(CurrentPartSize(mp) < 0)
    /\ mp' = IF mp.retry + 1 < maxRetries
             THEN [mp EXCEPT !.retry = mp.retry + 1]
             ELSE [mp EXCEPT !.retry = 0, !.partNum = mp.partNum + 1]
    /\ UNCHANGED <<jobs, coreVars, updVars, opsVars, auxVars, idemVars, upVars, errVars, fq>>

\* uploadMultipart: one turn of the loop over the parts whose UploadPart
\* succeeds, at the first try or after errors
MpUploadPart ==
    /\ mp.pc = "parts"
    /\ mp.partNum <= mp.partCount
    /\ LET offset == (mp.partNum - 1) * mp.partSize
           remaining == mp.size - offset
           currentPartSize == IF remaining < mp.partSize THEN remaining ELSE mp.partSize
       IN  mp' = IF currentPartSize < 0
                 THEN [mp EXCEPT !.pc = "panic"]
                 ELSE [mp EXCEPT !.partNum = mp.partNum + 1, !.retry = 0,
                                 !.next = offset + currentPartSize,
                                 !.contiguous = mp.contiguous /\ offset = mp.next
                                                /\ currentPartSize > 0]
    /\ UNCHANGED <<jobs, coreVars, updVars, opsVars, auxVars, idemVars, upVars, errVars, fq>>

\* uploadMultipart: UploadPart returns an error; after the error of the last
\* try the retry loop ends with uploadErr set: abort and return the error
MpPartFailed ==
    /\ mp.pc = "parts"
    /\ mp.partNum <= mp.partCount
    /\ ~(CurrentPartSize(mp) < 0)
    /\ mp' = IF mp.retry + 1 < maxRetries
             THEN [mp EXCEPT !.retry = mp.retry + 1]
             ELSE [mp EXCEPT !.retry = mp.retry + 1, !.pc = "aborted"]
    /\ UNCHANGED <<jobs, coreVars, updVars, opsVars, auxVars, idemVars, upVars, errVars, fq>>

\* uploadMultipart: CompleteMultipartUpload after the last part, or its error
\* and the abort
MpComplete ==
    /\ mp.pc = "parts"
    /\ mp.partNum > mp.partCount
    /\ \/ mp' = [mp EXCEPT !.pc = "done"]
       \/ mp' = [mp EXCEPT !.pc = "aborted"]
    /\ UNCHANGED <<jobs, coreVars, updVars, opsVars, auxVars, idemVars, upVars, errVars, fq>>

-----------------------------------------------------------------------------
(* Runner.Run: one subprocess of a stage; the clock counts ticks of 10 s *)

\* time.NewTicker(30 * time.Second)
TickerPeriod == 3

\* the calls of runner.Run
RunSites ==
    {"Transcode", "ExtractSubtitles", "GenerateThumbnails", "createThumbnailTiles",
     "SegmentHLS"}

SiteStage(site) ==
    CASE site = "Transcode"            -> "TRANSCODING"
      [] site = "ExtractSubtitles"     -> "SUBTITLES_EXTRACTION"
      [] site = "GenerateThumbnails"   -> "THUMBNAILS_GENERATION"
      [] site = "createThumbnailTiles" -> "THUMBNAILS_GENERATION"
      [] site = "SegmentHLS"           -> "HLS_SEGMENTATION"

\* the call passes a progress callback (it records a heartbeat), not nil
HasProgressFn(site) == site \in {"Transcode", "GenerateThumbnails", "SegmentHLS"}

\* the call hands the runner's error to recordError; the others log it and
\* go on with the next track or tile
RecordsRunError(site) == site \in {"Transcode", "GenerateThumbnails", "SegmentHLS"}

\* ActivityOptions.HeartbeatTimeout of the stage's context
HeartbeatTimeout(stage) == IF stage = "TRANSCODING" THEN 30 ELSE 6

NoRun == [pc |-> "idle", site |-> NULL, clock |-> 0, lastBeat |-> 0,
          ctxErr |-> NULL, exit |-> NULL, sigterm |-> FALSE, sigkill |-> FALSE,
          err |-> NULL, code |-> NULL, overdue |-> FALSE]

\* context.WithTimeout, exec.CommandContext, cmd.Start
RunStart ==
    /\ run.pc = "idle"
    /\ \E site \in RunSites : run' = [NoRun EXCEPT !.pc = "running", !.site = site]
    /\ UNCHANGED <<jobs, coreVars, updVars, auxVars, idemVars, upVars, errVars,
                   pureVars,
                   dl, sw, pool>>

\* 10 s pass while the subprocess runs; the ticker goroutine calls progressFn
\* every TickerPeriod if it is not nil. The activity is overdue when no
\* heartbeat was recorded for the stage's HeartbeatTimeout.
RunTick ==
    /\ run.pc = "running"
    /\ run.clock < ProcessTimeout
    /\ LET now == run.clock + 1
           beat == IF HasProgressFn(run.site) /\ now % TickerPeriod = 0
                   THEN now ELSE run.lastBeat
       IN  run' = [run EXCEPT !.clock = now, !.lastBeat = beat,
                              !.overdue = run.overdue
                                  \/ now - beat >= HeartbeatTimeout(SiteStage(run.site))]
    /\ UNCHANGED <<jobs, coreVars, updVars, auxVars, idemVars, upVars, errVars,
                   pureVars,
                   dl, sw, pool>>

\* the subprocess prints a progress line: the scanner goroutine calls
\* progressFn if it is not nil
RunProgressLine ==
    /\ run.pc = "running"
    /\ run.lastBeat # run.clock
    /\ HasProgressFn(run.site)
    /\ run' = [run EXCEPT !.lastBeat = run.clock]
    /\ UNCHANGED <<jobs, coreVars, updVars, auxVars, idemVars, upVars, errVars,
                   pureVars,
                   dl, sw, pool>>

\* the subprocess exits by itself with status 0 or not
RunExit ==
    /\ run.pc = "running"
    /\ \E status \in {"zero", "nonzero"} :
          run' = [run EXCEPT !.pc = "exited", !.exit = status]
    /\ UNCHANGED <<jobs, coreVars, updVars, auxVars, idemVars, upVars, errVars,
                   pureVars,
                   dl, sw, pool>>

\* the deadline of context.WithTimeout(ctx, r.timeout) passes: the command
\* made by exec.CommandContext is stopped with os.Process.Kill
RunDeadline ==
    /\ run.pc = "running"
    /\ run.clock = ProcessTimeout
    /\ run' = [run EXCEPT !.pc = "exited", !.exit = "killed",
                          !.ctxErr = "DeadlineExceeded", !.sigkill = TRUE]
    /\ UNCHANGED <<jobs, coreVars, updVars, auxVars, idemVars, upVars, errVars,
                   pureVars,
                   dl, sw, pool>>

\* the activity context is cancelled: the command made by exec.CommandContext
\* is stopped with os.Process.Kill
RunCancel ==
    /\ run.pc = "running"
    /\ run' = [run EXCEPT !.pc = "exited", !.exit = "killed",
                          !.ctxErr = "Canceled", !.sigkill = TRUE]
    /\ UNCHANGED <<jobs, coreVars, updVars, auxVars, idemVars, upVars, errVars,
                   pureVars,
                   dl, sw, pool>>

\* the error Run makes of cmd.Wait's result
RunError(exit, ctxErr) ==
    IF exit = "zero" THEN NULL
    ELSE IF ctxErr = "DeadlineExceeded" THEN "ffmpeg timed out"
    ELSE IF ctxErr = "Canceled" THEN "ffmpeg canceled"
    ELSE "ffmpeg failed"

\* cmd.Wait returns and Run returns its error or nil
RunReturn ==
    /\ run.pc = "exited"
    /\ run' = [run EXCEPT !.pc = "returned", !.err = RunError(run.exit, run.ctxErr)]
    /\ UNCHANGED <<jobs, coreVars, updVars, auxVars, idemVars, upVars, errVars,
                   pureVars,
                   dl, sw, pool>>

\* the code the caller of Run passes to recordError
RunErrorCode(site, err) ==
    IF err # NULL /\ RecordsRunError(site) THEN "FFMPEG_FAILED" ELSE NULL

\* the caller's `if err != nil`
RunHandled ==
    /\ run.pc = "returned"
    /\ run' = [run EXCEPT !.pc = "done", !.code = RunErrorCode(run.site, run.err)]
    /\ UNCHANGED <<jobs, coreVars, updVars, auxVars, idemVars, upVars, errVars,
                   pureVars,
                   dl, sw, pool>>

-----------------------------------------------------------------------------
(* ExtractMetadata: the source download of each attempt *)

\* what s3Client.Download can return: nil, or an error of GetObject or of
\* writing the file
DownloadCauses == {"ok", "NoSuchKey", "AccessDenied", "deadline", "write"}

NoDownload == [pc |-> "idle", attempt |-> 1, cause |-> NULL, code |-> NULL]

\* the code ExtractMetadata passes to recordError for a Download error
DownloadErrorCode(cause) == "S3_NOT_FOUND"

\* jobRepo.GetByID or workspace.Create fails: a plain error, which Temporal
\* retries under the stage's policy
MdPlainError ==
    /\ dl.pc = "idle"
    /\ dl' = IF dl.attempt < MaximumAttempts("METADATA_EXTRACTION", FALSE)
             THEN [dl EXCEPT !.attempt = dl.attempt + 1]
             ELSE [dl EXCEPT !.pc = "failed"]
    /\ UNCHANGED <<jobs, coreVars, updVars, auxVars, idemVars, upVars, errVars,
                   pureVars,
                   run, sw, pool>>

\* s3Client.Download and `if err != nil { return recordError(...) }`
MdDownload ==
    /\ dl.pc = "idle"
    /\ \E cause \in DownloadCauses :
          IF cause = "ok"
          THEN dl' = [dl EXCEPT !.pc = "probe", !.cause = cause, !.code = NULL]
          ELSE LET code == DownloadErrorCode(cause) IN
               dl' = IF ~NonRetryable(code)
                        /\ dl.attempt < MaximumAttempts("METADATA_EXTRACTION", FALSE)
                     THEN [dl EXCEPT !.attempt = dl.attempt + 1, !.cause = cause,
                                     !.code = code]
                     ELSE [dl EXCEPT !.pc = "failed", !.cause = cause, !.code = code]
    /\ UNCHANGED <<jobs, coreVars, updVars, auxVars, idemVars, upVars, errVars,
                   pureVars,
                   run, sw, pool>>

\* prober.Probe: the metadata, or recordError(FFPROBE_FAILED)
MdProbe ==
    /\ dl.pc = "probe"
    /\ \/ dl' = [dl EXCEPT !.pc = "ok"]
       \/ dl' = [dl EXCEPT !.pc = "failed", !.cause = "probe",
                           !.code = "FFPROBE_FAILED"]
    /\ UNCHANGED <<jobs, coreVars, updVars, auxVars, idemVars, upVars, errVars,
                   pureVars,
                   run, sw, pool>>

-----------------------------------------------------------------------------
(* runOrphanCleanup and CleanupOrphans; ages in hours *)

\* ffmpeg.CleanupOrphans(workdir, 24*time.Hour)
OrphanMaxAge == 24

\* now - ModTime() of the entries the model follows
DirAges == {0, 23, 24, 25}

\* an entry of the workdir root: a directory or not, a name that uuid.Parse
\* accepts or not, with a .lock file in it or not
DirEntries == [isDir : BOOLEAN, uuid : BOOLEAN, locked : BOOLEAN, age : DirAges]

\* the listings of 1..n entries
RECURSIVE EntryLists(_)
EntryLists(n) ==
    IF n = 0 THEN {}
    ELSE {<<e>> : e \in DirEntries}
         \cup {Append(l, e) : l \in EntryLists(n - 1), e \in DirEntries}

\* a sweep that does not look for the .lock file
SweepRemovesLocked(e) == e.isDir /\ e.uuid /\ ~(e.age < OrphanMaxAge)

\* the entry passes every `continue` of the loop and reaches os.RemoveAll
SweepRemoves(e) == e.isDir /\ e.uuid /\ ~(e.age < OrphanMaxAge) /\ ~e.locked

NoSweep == [pc |-> "idle", entries |-> <<>>, next |-> 1, removed |-> {}]

\* the ticker fires: os.ReadDir(root)
SwReadDir ==
    /\ sw.pc = "idle"
    /\ \E entries \in EntryLists(NumDirs) :
          sw' = [NoSweep EXCEPT !.pc = "loop", !.entries = entries]
    /\ UNCHANGED <<jobs, coreVars, updVars, auxVars, idemVars, upVars, errVars,
                   pureVars,
                   run, dl, pool>>

\* one turn of the loop over the entries
SwEntry ==
    /\ sw.pc = "loop"
    /\ sw.next <= Len(sw.entries)
    /\ sw' = [sw EXCEPT !.next = sw.next + 1,
                        !.removed = IF SweepRemoves(sw.entries[sw.next])
                                    THEN sw.removed \cup {sw.next} ELSE sw.removed]
    /\ UNCHANGED <<jobs, coreVars, updVars, auxVars, idemVars, upVars, errVars,
                   pureVars,
                   run, dl, pool>>

\* CleanupOrphans returns nil
SwReturn ==
    /\ sw.pc = "loop"
    /\ sw.next > Len(sw.entries)
    /\ sw' = [sw EXCEPT !.pc = "done"]
    /\ UNCHANGED <<jobs, coreVars, updVars, auxVars, idemVars, upVars, errVars,
                   pureVars,
                   run, dl, pool>>

-----------------------------------------------------------------------------
(* the Temporal worker's activity task slots *)

\* stages whose activity runs ffmpeg subprocesses
SubprocessHeavy(stage) ==
    stage \in {"TRANSCODING", "SUBTITLES_EXTRACTION", "THUMBNAILS_GENERATION",
               "HLS_SEGMENTATION"}

\* Config.Validate: MAX_PARALLEL_JOBS and MAX_PARALLEL_FFMPEG at least 1
Validate(maxParallelJobs, maxParallelFFmpeg) ==
    ~(maxParallelJobs < 1) /\ ~(maxParallelFFmpeg < 1)

\* worker.Options.MaxConcurrentActivityExecutionSize
MaxConcurrentActivityExecutionSize(maxParallelJobs, maxParallelFFmpeg) ==
    maxParallelJobs

NoPool == [pc |-> "load", MaxParallelJobs |-> 0, MaxParallelFFmpeg |-> 0,
           slots |-> [i \in 1..MaxSlots |-> NULL]]

\* config.Load, Validate, worker.New
PoolConfigure ==
    /\ pool.pc = "load"
    /\ \E j \in 0..MaxSlots, f \in 0..MaxSlots :
          /\ Validate(j, f)
          /\ pool' = [pool EXCEPT !.pc = "run", !.MaxParallelJobs = j,
                                  !.MaxParallelFFmpeg = f]
    /\ UNCHANGED <<jobs, coreVars, updVars, auxVars, idemVars, upVars, errVars,
                   pureVars,
                   run, dl, sw>>

\* the worker takes an activity task of some job's stage into a free slot
PoolStartActivity(i) ==
    /\ pool.pc = "run"
    /\ pool.slots[i] = NULL
    /\ i <= MaxConcurrentActivityExecutionSize(pool.MaxParallelJobs,
                                               pool.MaxParallelFFmpeg)
    /\ \E k \in DOMAIN AllStages :
          pool' = [pool EXCEPT !.slots[i] = AllStages[k]]
    /\ UNCHANGED <<jobs, coreVars, updVars, auxVars, idemVars, upVars, errVars,
                   pureVars,
                   run, dl, sw>>

\* the activity returns and frees its slot
PoolFinishActivity(i) ==
    /\ pool.pc = "run"
    /\ pool.slots[i] # NULL
    /\ pool' = [pool EXCEPT !.slots[i] = NULL]
    /\ UNCHANGED <<jobs, coreVars, updVars, auxVars, idemVars, upVars, errVars,
                   pureVars,
                   run, dl, sw>>

-----------------------------------------------------------------------------
(* Job.CalculateOverallProgress over the stages and their progress *)

NoCalc == [pc |-> "idle", current_stage |-> NULL, stage_progress |-> 0,
           overall |-> 0]

\* a job row: no stage yet, or a stage of AllStages and a stage_progress
CalcJob ==
    /\ calc.pc \in {"idle", "done"}
    /\ \E st \in {NULL} \cup {AllStages[i] : i \in DOMAIN AllStages}, p \in 0..100 :
          calc' = [pc |-> "job", current_stage |-> st, stage_progress |-> p,
                   overall |-> 0]
    /\ UNCHANGED <<jobs, coreVars, updVars, opsVars, idemVars, upVars, errVars,
                   pureVars, at, rg, jobsActive>>

\* job.CalculateOverallProgress()
CalcApply ==
    /\ calc.pc = "job"
    /\ calc' = [calc EXCEPT !.pc = "done",
                            !.overall = CalculateOverallProgress(calc.current_stage,
                                                                 calc.stage_progress)]
    /\ UNCHANGED <<jobs, coreVars, updVars, opsVars, idemVars, upVars, errVars,
                   pureVars, at, rg, jobsActive>>

-----------------------------------------------------------------------------
(* determineArtifactType on the keys UploadDirectory builds *)

\* names of files the stages leave in the workspace
FileNames == {"master.m3u8", "playlist.m3u8", "segment_000.ts", "thumbnails.vtt",
              "en.vtt", "tile_001.jpg", "tile_001.png", "metadata.json", "init.mp4"}

\* filepath.Ext of the last path element
Ext(name) ==
    CASE name \in {"master.m3u8", "playlist.m3u8"} -> ".m3u8"
      [] name = "segment_000.ts"                   -> ".ts"
      [] name \in {"thumbnails.vtt", "en.vtt"}     -> ".vtt"
      [] name = "tile_001.jpg"                     -> ".jpg"
      [] name = "tile_001.png"                     -> ".png"
      [] name = "metadata.json"                    -> ".json"
      [] OTHER                                     -> ".mp4"

\* filepath.Base(key): the last element of the path
Base(key) == key[Len(key)]

\* filepath.Dir(key): the path without its last element
Dir(key) == SubSeq(key, 1, Len(key) - 1)

\* filepath.Dir(key) == name, for a name of one element
DirIs(key, name) == Len(Dir(key)) = 1 /\ Dir(key)[1] = name

determineArtifactType(key) ==
    LET ext  == Ext(Base(key))
        base == Base(key)
    IN  CASE base = "master.m3u8"                   -> "HLS_MASTER"
          [] ext = ".m3u8" /\ base # "master.m3u8"  -> "HLS_VARIANT"
          [] ext = ".ts"                            -> "SEGMENT"
          [] ext = ".vtt" /\ DirIs(key, "thumbs")   -> "THUMB_VTT"
          [] ext = ".vtt" /\ ~DirIs(key, "thumbs")  -> "SUBTITLE"
          [] ext \in {".jpg", ".png"}               -> "THUMB_TILE"
          [] ext = ".json"                          -> "METADATA_JSON"
          [] OTHER                                  -> "SEGMENT"

NoType == [pc |-> "idle", key |-> <<>>, subdir |-> NULL, type |-> NULL]

\* UploadDirectory(localDir, prefix + "/" + subdir): the key of a file is
\* filepath.Join(prefix, relPath); relPath may cross a subdirectory
TypeUploadedKey ==
    /\ at.pc \in {"idle", "typed"}
    /\ \E v \in VideoIDs, d \in DOMAIN UploadDirs, rel \in {<<>>, <<"720p">>},
          name \in FileNames :
          at' = [pc |-> "key",
                 key |-> UploadPrefix(v, JobID) \o <<UploadDirs[d]>> \o rel \o <<name>>,
                 subdir |-> UploadDirs[d], type |-> NULL]
    /\ UNCHANGED <<jobs, coreVars, updVars, opsVars, idemVars, upVars, errVars,
                   pureVars, calc, rg, jobsActive>>

\* artifactType := determineArtifactType(key)
TypeApply ==
    /\ at.pc = "key"
    /\ at' = [at EXCEPT !.pc = "typed", !.type = determineArtifactType(at.key)]
    /\ UNCHANGED <<jobs, coreVars, updVars, opsVars, idemVars, upVars, errVars,
                   pureVars, calc, rg, jobsActive>>

-----------------------------------------------------------------------------
(* Runner.Run: the stdout reader, the ticker goroutine and cmd.Wait *)

\* a Progress value is the number of the progress line it was parsed from;
\* 0 is the zero value Progress{}
NoGoroutines == [pc |-> "idle", exited |-> FALSE, scanner |-> "scan", progress |-> 0,
                 progressChan |-> <<>>, ticker |-> "select", lastProgress |-> 0,
                 tick |-> FALSE, ticks |-> 0, calls |-> <<>>]

\* ctx.Done() of Run's context: `defer cancel()` has run
RgCtxDone == rg.pc = "returned"

\* the channel `done` is closed
RgDone == rg.scanner = "closed"

\* progressFn(p)
RgCall(by, p) == Append(rg.calls, [by |-> by, progress |-> p, returned |-> RgCtxDone])

\* cmd.Start() and the three `go func()`
RgStart ==
    /\ rg.pc = "idle"
    /\ rg' = [rg EXCEPT !.pc = "running"]
    /\ UNCHANGED <<jobs, coreVars, updVars, opsVars, idemVars, upVars, errVars,
                   pureVars, calc, at, jobsActive>>

\* stdout reader: scanner.Scan() returns a line that parseProgressLine takes
RgScan ==
    /\ rg.pc = "running"
    /\ rg.scanner = "scan"
    /\ rg.progress < MaxProgressLines
    /\ rg' = [rg EXCEPT !.scanner = "send", !.progress = rg.progress + 1]
    /\ UNCHANGED <<jobs, coreVars, updVars, opsVars, idemVars, upVars, errVars,
                   pureVars, calc, at, jobsActive>>

\* stdout reader: select { case progressChan <- progress: default: }
RgSend ==
    /\ rg.scanner = "send"
    /\ rg' = [rg EXCEPT !.scanner = "call",
                        !.progressChan = IF rg.progressChan = <<>>
                                         THEN <<rg.progress>> ELSE rg.progressChan]
    /\ UNCHANGED <<jobs, coreVars, updVars, opsVars, idemVars, upVars, errVars,
                   pureVars, calc, at, jobsActive>>

\* stdout reader: progressFn(progress)
RgScannerCall ==
    /\ rg.scanner = "call"
    /\ rg' = [rg EXCEPT !.scanner = "scan", !.calls = RgCall("scanner", rg.progress)]
    /\ UNCHANGED <<jobs, coreVars, updVars, opsVars, idemVars, upVars, errVars,
                   pureVars, calc, at, jobsActive>>

\* stdout reader: scanner.Scan() returns false, the deferred close(done)
RgScanEnd ==
    /\ rg.scanner = "scan"
    /\ rg.exited
    /\ rg' = [rg EXCEPT !.scanner = "closed"]
    /\ UNCHANGED <<jobs, coreVars, updVars, opsVars, idemVars, upVars, errVars,
                   pureVars, calc, at, jobsActive>>

\* the subprocess exits
RgExit ==
    /\ rg.pc = "running"
    /\ ~rg.exited
    /\ rg' = [rg EXCEPT !.exited = TRUE]
    /\ UNCHANGED <<jobs, coreVars, updVars, opsVars, idemVars, upVars, errVars,
                   pureVars, calc, at, jobsActive>>

\* cmd.Wait() returns, Run returns and its deferred cancel() runs
RgReturn ==
    /\ rg.pc = "running"
    /\ rg.exited
    /\ rg' = [rg EXCEPT !.pc = "returned"]
    /\ UNCHANGED <<jobs, coreVars, updVars, opsVars, idemVars, upVars, errVars,
                   pureVars, calc, at, jobsActive>>

\* the ticker's period passes: a value waits in ticker.C
RgTick ==
    /\ rg.pc # "idle"
    /\ rg.ticker # "exited"
    /\ ~rg.tick
    /\ rg.ticks < MaxTicks
    /\ rg' = [rg EXCEPT !.tick = TRUE, !.ticks = rg.ticks + 1]
    /\ UNCHANGED <<jobs, coreVars, updVars, opsVars, idemVars, upVars, errVars,
                   pureVars, calc, at, jobsActive>>

\* ticker goroutine: case p := <-progressChan: lastProgress = p
RgTickerReceive ==
    /\ rg.pc # "idle"
    /\ rg.ticker = "select"
    /\ rg.progressChan # <<>>
    /\ rg' = [rg EXCEPT !.lastProgress = rg.progressChan[1], !.progressChan = <<>>]
    /\ UNCHANGED <<jobs, coreVars, updVars, opsVars, idemVars, upVars, errVars,
                   pureVars, calc, at, jobsActive>>

\* ticker goroutine: case <-ticker.C
RgTickerFire ==
    /\ rg.pc # "idle"
    /\ rg.ticker = "select"
    /\ rg.tick
    /\ rg' = [rg EXCEPT !.ticker = "call", !.tick = FALSE]
    /\ UNCHANGED <<jobs, coreVars, updVars, opsVars, idemVars, upVars, errVars,
                   pureVars, calc, at, jobsActive>>

\* ticker goroutine: progressFn(lastProgress)
RgTickerCall ==
    /\ rg.ticker = "call"
    /\ rg' = [rg EXCEPT !.ticker = "select", !.calls = RgCall("ticker", rg.lastProgress)]
    /\ UNCHANGED <<jobs, coreVars, updVars, opsVars, idemVars, upVars, errVars,
                   pureVars, calc, at, jobsActive>>

\* ticker goroutine: case <-done, case <-ctx.Done(): return
RgTickerReturn ==
    /\ rg.ticker = "select"
    /\ RgDone \/ RgCtxDone
    /\ rg' = [rg EXCEPT !.ticker = "exited"]
    /\ UNCHANGED <<jobs, coreVars, updVars, opsVars, idemVars, upVars, errVars,
                   pureVars, calc, at, jobsActive>>

-----------------------------------------------------------------------------
(* the orphan sweep over the workdir root that holds the job's workspace *)

\* IsLocked: Workspace.Create writes <workspace>/.lock as its last step, and
\* nothing removes the file but the RemoveAll of the workspace
WorkspaceLocked == workspaceExists

\* the hourly CleanupOrphans finds the job's workspace, of some age
SweepWorkspace ==
    /\ sw.pc = "idle"
    /\ workspaceExists
    /\ \E age \in DirAges :
          LET e == [isDir |-> TRUE, uuid |-> TRUE, locked |-> WorkspaceLocked,
                    age |-> age]
          IN  /\ sw' = [pc |-> "done", entries |-> <<e>>, next |-> 2,
                        removed |-> IF SweepRemoves(e) THEN {1} ELSE {}]
              /\ workspaceExists' = ~SweepRemoves(e)
    /\ UNCHANGED <<jobs, errors, apiVars, wfVars, act, zombie, histVars, updVars,
                   idemVars, upVars, errVars, pureVars, run, dl, pool, auxVars>>

-----------------------------------------------------------------------------
(* the service: one job from admission to the end of its workflow *)

\* everything but the jobs table
InitRest ==
    /\ errors = <<>>
    /\ createPc = "insert"
    /\ cancelPc = "idle"
    /\ cancelsLeft = MaxCancels
    /\ cancelIssued = FALSE
    /\ wfPc = "idle"
    /\ wfStage = 0
    /\ cancelled = FALSE
    /\ signalPending = FALSE
    /\ ctxCancelled = FALSE
    /\ output = "RUNNING"
    /\ act = NoAct
    /\ zombie = NoAct
    /\ workspaceExists = FALSE
    /\ startOrder = <<>>
    /\ finishedStages = {}
    /\ failedStages = {}
    /\ finalized = FALSE
    /\ upd = [u \in 1..NumUpdaters |-> [pc |-> "idle", rounds |-> 0, copy |-> NewJob]]
    /\ okAt = [v \in 0..(NumUpdaters * MaxUpdateRounds) |-> 0]
    /\ failAt = [v \in 0..(NumUpdaters * MaxUpdateRounds) |-> 0]
    /\ adm = [c \in 1..NumClients |-> NoRequest]
    /\ started = {}
    /\ tree = [d \in DOMAIN UploadDirs |-> 0]
    /\ ua = [pc |-> "idle", dir |-> 0, attempt |-> 0, video_id |-> NULL,
             maxConcurrent |-> 0]
    /\ gor = [f \in 1..NumFiles |-> "none"]
    /\ sem = 0
    /\ errChan = 0
    /\ dirArtifacts = {}
    /\ allArtifacts = {}
    /\ upCtxDone = FALSE
    /\ objects = {}
    /\ artifactRows = {}
    /\ lastReturn = NoReturn
    /\ ew = [w \in 1..NumErrorWriters |-> [pc |-> "idle", error_id |-> 0, calls |-> 0]]
    /\ fq = NoFilter
    /\ mp = NoUpload
    /\ run = NoRun
    /\ dl = NoDownload
    /\ sw = NoSweep
    /\ pool = NoPool
    /\ calc = NoCalc
    /\ at = NoType
    /\ rg = NoGoroutines
    /\ jobsActive = 0

Init ==
    /\ jobs = <<>>
    /\ InitRest

Next ==
    \/ CreateJobInsert
    \/ CreateJobStartWorkflow
    \/ CreateJobStartWorkflowFailed
    \/ CreateJobSetWorkflowID
    \/ CancelJobRead
    \/ CancelJobSignal
    \/ CancelJobCancelWorkflow
    \/ CancelJobSetFinished
    \/ WfExecuteActivity
    \/ WfGetResult
    \/ WfGetCanceled
    \/ WfCheckCancelled
    \/ WfHandleCancellation
    \/ WfHandleCancellationDone
    \/ WfFinalize
    \/ ActivityStep
    \/ ZombieStep
    \/ ZombieStop

Spec == Init /\ [][Next]_vars

\* the service beside the worker's hourly orphan sweep
NextSwept ==
    \/ Next
    \/ SweepWorkspace

SpecSwept == Init /\ [][NextSwept]_vars

-----------------------------------------------------------------------------
(* clients of JobRepository.Update on one job row *)

\* GetByID, then the client changes a column of its copy
UpdGetByID(u) ==
    /\ upd[u].pc = "idle"
    /\ upd[u].rounds < MaxUpdateRounds
    /\ JobID \in DOMAIN jobs
    /\ \E st \in {"QUEUED", "RUNNING"} :
          upd' = [upd EXCEPT ![u].pc = "loaded",
                             ![u].copy = [jobs[JobID] EXCEPT !.status = st]]
    /\ UNCHANGED <<jobs, errors, apiVars, wfVars, act, zombie, workspaceExists,
                   histVars, okAt, failAt, extVars>>

\* Update(job): RowsAffected() = 0 gives ErrConcurrentModification, otherwise
\* job.LockVersion++
UpdUpdate(u) ==
    /\ upd[u].pc = "loaded"
    /\ LET j == upd[u].copy
           v == j.lock_version
       IN  /\ jobs' = Update(jobs, JobID, j)
           /\ IF UpdateMatches(jobs, JobID, j)
              THEN /\ okAt' = [okAt EXCEPT ![v] = @ + 1]
                   /\ upd' = [upd EXCEPT ![u].pc = "idle", ![u].rounds = @ + 1,
                                         ![u].copy.lock_version = v + 1]
                   /\ UNCHANGED failAt
              ELSE /\ failAt' = [failAt EXCEPT ![v] = @ + 1]
                   /\ upd' = [upd EXCEPT ![u].pc = "idle", ![u].rounds = @ + 1]
                   /\ UNCHANGED okAt
    /\ UNCHANGED <<errors, apiVars, wfVars, act, zombie, workspaceExists, histVars,
                   extVars>>

\* a targeted write that runs beside the Updates: updateProgress of a stage
UpdTargetedWrite ==
    /\ JobID \in DOMAIN jobs
    /\ jobs[JobID].stage_progress # 100
    /\ jobs' = updateProgress(jobs, JobID, "TRANSCODING", 100)
    /\ UNCHANGED <<errors, apiVars, wfVars, act, zombie, workspaceExists, histVars,
                   updVars, extVars>>

InitUpdate ==
    /\ InitRest
    /\ \E st \in {"QUEUED", "RUNNING"} :
          jobs = <<[NewJob EXCEPT !.status = st]>>

NextUpdate ==
    \/ \E u \in 1..NumUpdaters : UpdGetByID(u)
    \/ \E u \in 1..NumUpdaters : UpdUpdate(u)
    \/ UpdTargetedWrite

SpecUpdate == InitUpdate /\ [][NextUpdate]_vars

NextAdmission ==
    \/ \E c \in 1..NumClients : AdmReceive(c)
    \/ \E c \in 1..NumClients : AdmLookup(c)
    \/ \E c \in 1..NumClients : AdmCreate(c)
    \/ \E c \in 1..NumClients : AdmStartWorkflow(c)
    \/ \E c \in 1..NumClients : AdmSetWorkflowID(c)

SpecAdmission == Init /\ [][NextAdmission]_vars

InitUpload ==
    /\ InitRest
    /\ jobs = <<[NewJob EXCEPT !.status = "RUNNING"]>>

NextUpload ==
    \/ UpWorkspace
    \/ UpBegin
    \/ UpSpawn
    \/ UpCancel
    \/ \E f \in 1..NumFiles : GorCtxDone(f)
    \/ \E f \in 1..NumFiles : GorAcquire(f)
    \/ \E f \in 1..NumFiles : GorUploaded(f)
    \/ \E f \in 1..NumFiles : GorUploadFailed(f)
    \/ UpDirReturn
    \/ UpCreateBatch
    \/ UpCreateBatchFailed

SpecUpload == InitUpload /\ [][NextUpload]_vars

\* the upload stage with attempts whose result does not reach the server
NextUploadRetried ==
    \/ NextUpload
    \/ UpCommitUnacknowledged

SpecUploadRetried == InitUpload /\ [][NextUploadRetried]_vars

NextErrors ==
    \/ \E w \in 1..NumErrorWriters : ErrInsert(w)
    \/ \E w \in 1..NumErrorWriters : ErrPatch(w)

SpecErrors == InitUpload /\ [][NextErrors]_vars

NextFilter ==
    \/ FilterJob
    \/ FilterApply

SpecFilter == InitUpload /\ [][NextFilter]_vars

NextMultipart ==
    \/ MpOpen
    \/ MpPutObject
    \/ MpUploadPart
    \/ MpPartFailed
    \/ MpComplete

SpecMultipart == InitUpload /\ [][NextMultipart]_vars

\* a worker that runs a subprocess of one activity and the metadata stage of
\* another
NextStageOps ==
    \/ RunStart
    \/ RunTick
    \/ RunProgressLine
    \/ RunExit
    \/ RunDeadline
    \/ RunCancel
    \/ RunReturn
    \/ RunHandled
    \/ MdPlainError
    \/ MdDownload
    \/ MdProbe

SpecStageOps == InitUpload /\ [][NextStageOps]_vars

NextSweep ==
    \/ SwReadDir
    \/ SwEntry
    \/ SwReturn

SpecSweep == InitUpload /\ [][NextSweep]_vars

NextWorker ==
    \/ PoolConfigure
    \/ \E i \in 1..MaxSlots : PoolStartActivity(i)
    \/ \E i \in 1..MaxSlots : PoolFinishActivity(i)

SpecWorker == InitUpload /\ [][NextWorker]_vars

NextProgress ==
    \/ CalcJob
    \/ CalcApply

SpecProgress == InitUpload /\ [][NextProgress]_vars

NextTypes ==
    \/ TypeUploadedKey
    \/ TypeApply

SpecTypes == InitUpload /\ [][NextTypes]_vars

NextGoroutines ==
    \/ RgStart
    \/ RgScan
    \/ RgSend
    \/ RgScannerCall
    \/ RgScanEnd
    \/ RgExit
    \/ RgReturn
    \/ RgTick
    \/ RgTickerReceive
    \/ RgTickerFire
    \/ RgTickerCall
    \/ RgTickerReturn

SpecGoroutines == InitUpload /\ [][NextGoroutines]_vars

-----------------------------------------------------------------------------
(* Properties *)

\* nothing of the job is in flight: both handlers returned, the workflow ended
\* and no abandoned activity is left
Quiescent ==
    /\ createPc = "done"
    /\ cancelPc = "idle"
    /\ wfPc = "done"
    /\ zombie = NoAct

RequiredStages ==
    {"METADATA_EXTRACTION", "VALIDATION", "TRANSCODING", "HLS_SEGMENTATION",
     "UPLOADING"}

IsPrefix(s, t) == Len(s) <= Len(t) /\ \A i \in 1..Len(s) : s[i] = t[i]

RECURSIVE SumTo(_, _)
SumTo(f, n) == IF n < 0 THEN 0 ELSE f[n] + SumTo(f, n - 1)

\* C1: once the persisted status is COMPLETED, FAILED or CANCELED, no later
\* write changes it to a different value.
C1_TerminalWriteOnce ==
    [][\A id \in DOMAIN jobs :
          jobs[id].status \in Terminal => jobs'[id].status = jobs[id].status]_vars

\* C2: a cancel request issued while the job is QUEUED or RUNNING leaves the
\* job with final persisted status CANCELED.
C2_CancelReachesCanceled ==
    (Quiescent /\ cancelIssued) => jobs[JobID].status = "CANCELED"

\* C3: when a required stage recorded a FATAL error and the workflow ended
\* FAILED, the Cleanup stage has run and no workspace directory is left on disk.
C3_FailedAfterCleanup ==
    (/\ wfPc = "done"
     /\ output = "FAILED"
     /\ \E e \in DOMAIN errors :
           errors[e].class = "FATAL" /\ errors[e].stage \in failedStages \cap RequiredStages)
        => ("CLEANUP" \in finishedStages /\ ~workspaceExists)

\* C4: every workflow execution runs FinalizeJob to completion, so that the
\* persisted status ends terminal and equal to the workflow's outcome.
C4_FinalizationAlwaysRuns ==
    wfPc = "done"
        => (finalized /\ jobs[JobID].status \in Terminal
                      /\ jobs[JobID].status = output)

\* C5: in every persisted snapshot, overall_progress = 100 if and only if
\* status = COMPLETED.
C5_ProgressHundredIffCompleted ==
    \A id \in DOMAIN jobs :
        (jobs[id].overall_progress = 100) <=> (jobs[id].status = "COMPLETED")

\* C6: in every persisted snapshot, finished_at is non-null if and only if the
\* status is terminal.
C6_FinishedAtIffTerminal ==
    \A id \in DOMAIN jobs :
        (jobs[id].finished_at # NULL) <=> (jobs[id].status \in Terminal)

\* C7: overall_progress never decreases from one persisted snapshot to the next.
C7_OverallProgressMonotonic ==
    [][\A id \in DOMAIN jobs :
          jobs'[id].overall_progress >= jobs[id].overall_progress]_vars

\* C8: stages are started in the fixed order of AllStages, each pipeline stage
\* only after every stage before it has finished, the only activity running
\* beside another being the cancellation Cleanup; and a workflow that ends
\* COMPLETED has started every stage, none skipped or reordered.
C8_StagesSequential ==
    /\ \/ IsPrefix(startOrder, AllStages)
       \/ /\ cancelled
          /\ startOrder # <<>>
          /\ startOrder[Len(startOrder)] = "CLEANUP"
          /\ IsPrefix(SubSeq(startOrder, 1, Len(startOrder) - 1), AllStages)
    /\ \A i \in 1..Len(startOrder) :
          startOrder[i] = AllStages[i]
              => \A k \in 1..(i - 1) : AllStages[k] \in finishedStages
    /\ (Running(act) /\ zombie # NoAct) => (cancelled /\ act.disconnected)
    /\ output = "COMPLETED" => (startOrder = AllStages /\ ~cancelled)

C10_OptimisticLock ==
    /\ \A v \in DOMAIN okAt :
          /\ okAt[v] <= 1
          /\ failAt[v] > 0 => okAt[v] = 1
    /\ \A id \in DOMAIN jobs :
          jobs[id].lock_version = SumTo(okAt, NumUpdaters * MaxUpdateRounds)

C10_Witness ==
    \E v \in DOMAIN okAt : okAt[v] = 1 /\ failAt[v] >= 1

\* C11: for every idempotency key at most one job row and at most one started
\* workflow exist, and every answered request that carried the key succeeded
\* and was given the id of that one job.
C11_IdempotentCreate ==
    \A key \in IdempotencyKeys :
        /\ Cardinality(GetByIdempotencyKey(jobs, key)) <= 1
        /\ Cardinality(started \cap GetByIdempotencyKey(jobs, key)) <= 1
        /\ \A c \in 1..NumClients :
              (adm[c].pc = "done" /\ adm[c].key = key)
                  => /\ adm[c].http \in {200, 201}
                     /\ GetByIdempotencyKey(jobs, key) = {adm[c].job_id}

ObjectKeys == {o.key : o \in objects}

\* C12: every artifact, in the uploader's lists and in the committed rows, is
\* the artifact of an object whose upload had succeeded; no artifact exists
\* for a file whose upload failed or has not finished.
C12_ArtifactsAfterUpload ==
    /\ \A row \in artifactRows : row.key \in ObjectKeys
    /\ dirArtifacts \cup allArtifacts \subseteq ObjectKeys

C12_Witness ==
    /\ artifactRows # {}
    /\ lastReturn.err
    /\ ua.attempt > 1

\* C17: at every instant at most MAX_PARALLEL_UPLOADS file uploads are in
\* flight.
C17_BoundedParallelUploads == Cardinality(InFlight(gor)) <= ua.maxConcurrent

C17_Witness ==
    /\ Cardinality(InFlight(gor)) = MaxParallelUploads
    /\ \E f \in DOMAIN gor : gor[f] = "waiting"

\* C18: when a file's upload failed, or the context was cancelled before the
\* file got a slot, UploadDirectory returned an error and no artifacts; and
\* at its return every goroutine it started had finished.
C18_AggregateFailure ==
    /\ lastReturn.failures > 0 => (lastReturn.err /\ lastReturn.artifacts = {})
    /\ lastReturn.unfinished = 0

C18_Witness ==
    /\ ua.pc # "wait"
    /\ lastReturn.err
    /\ lastReturn.failures > 0
    /\ dirArtifacts # {}

HasLastError(id) ==
    /\ jobs[id].last_error_id \in DOMAIN errors
    /\ errors[jobs[id].last_error_id].job_id = id

\* C13: when the workflow of a job that nobody cancelled ended FAILED, the
\* persisted status is FAILED and last_error_id references a ConversionError
\* row of that job.
C13_FailedHasLastError ==
    (wfPc = "done" /\ output = "FAILED" /\ cancelsLeft = MaxCancels)
        => (jobs[JobID].status = "FAILED" /\ HasLastError(JobID))

\* C14: a job that ends with persisted status CANCELED has a ConversionError
\* row with code CANCELED, and its last_error_id references that row.
C14_CanceledHasCanceledError ==
    (Quiescent /\ jobs[JobID].status = "CANCELED")
        => (HasLastError(JobID) /\ errors[jobs[JobID].last_error_id].code = "CANCELED")

\* C15: whenever no ErrorRepository.Create call is in progress, last_error_id
\* is the id of the error row of the job that was inserted last.
C15_LastErrorIsMostRecent ==
    (errors # <<>> /\ \A w \in DOMAIN ew : ew[w].pc = "idle")
        => jobs[JobID].last_error_id = Len(errors)

\* C16: every quality the filter keeps, other than origin, has a preset height
\* that is at most the source height, and when every quality of the profile
\* has a preset height above the source height the filtered list is origin alone.
C16_NoUpscaling ==
    fq.pc = "filtered" =>
        /\ \A i \in DOMAIN fq.filtered :
              fq.filtered[i] # "origin" => QualityHeight(fq.filtered[i]) <= fq.height
        /\ (\A i \in DOMAIN fq.qualities : QualityHeight(fq.qualities[i]) > fq.height)
              => fq.filtered = <<"origin">>

C16_Witness ==
    /\ fq.pc = "filtered"
    /\ \A i \in DOMAIN fq.qualities : QualityHeight(fq.qualities[i]) > fq.height
    /\ Len(fq.qualities) = MaxQualities
    /\ fq.filtered = <<"origin">>

\* C20: a file below MinPartSize is put in one request; any other file is
\* uploaded in at most MaxParts parts that follow one another without gap or
\* overlap and end exactly at the file's size, and the upload never crashes.
C20_PartPlan ==
    /\ mp.pc # "panic"
    /\ mp.pc # "idle" => (mp.mode = "simple" <=> mp.size < MinPartSize)
    /\ mp.mode = "multipart" => mp.partCount <= MaxParts
    /\ (mp.pc = "done" /\ mp.mode = "multipart")
          => (mp.contiguous /\ mp.next = mp.size)

\* C21: the code recorded for a stage whose subprocess failed tells the cause:
\* TIMEOUT when the runner's deadline passed, CANCELED when the context was
\* cancelled, FFMPEG_FAILED when the subprocess exited non-zero by itself.
C21_RunnerCodes ==
    (run.pc = "done" /\ run.code # NULL) =>
        run.code = (CASE run.ctxErr = "DeadlineExceeded" -> "TIMEOUT"
                      [] run.ctxErr = "Canceled"         -> "CANCELED"
                      [] OTHER                           -> "FFMPEG_FAILED")

\* C26: a subprocess stopped because its context was cancelled got the forced
\* kill only after the graceful signal.
C26_GracefulBeforeKill == (run.ctxErr = "Canceled" /\ run.sigkill) => run.sigterm

\* C27: while a subprocess runs, the last heartbeat of its stage is never
\* older than the ticker period, and the stage is never overdue on its
\* heartbeat timeout.
C27_HeartbeatWhileSilent ==
    run.pc = "running" =>
        /\ run.clock - run.lastBeat <= TickerPeriod
        /\ ~run.overdue

\* C30: a source download that failed on a deadline is recorded as S3_TIMEOUT
\* and the attempt is retried while the policy allows; S3_NOT_FOUND is
\* recorded only for a missing object.
C30_DownloadCodes ==
    /\ dl.cause = "deadline" =>
          /\ dl.code = "S3_TIMEOUT"
          /\ dl.pc = "failed" => dl.attempt = MaximumAttempts("METADATA_EXTRACTION", FALSE)
    /\ dl.code = "S3_NOT_FOUND" => dl.cause = "NoSuchKey"

C28_FFmpegCap ==
    Cardinality({i \in DOMAIN pool.slots :
                    pool.slots[i] # NULL /\ SubprocessHeavy(pool.slots[i])})
        <= IF pool.pc = "run" THEN pool.MaxParallelFFmpeg ELSE 0

\* C23: once the workflow has seen the cancel signal at a stage boundary, the
\* only activity it starts is Cleanup on a disconnected context; its status
\* becomes CANCELED only when that Cleanup has returned, and that is the
\* status it goes to finalization with.
C23_CancelAtBoundary ==
    [][/\ (cancelled /\ startOrder' # startOrder) =>
             /\ startOrder' = Append(startOrder, "CLEANUP")
             /\ act'.stage = "CLEANUP"
             /\ act'.disconnected
       /\ (output' = "CANCELED" /\ output # "CANCELED") =>
             /\ cancelled
             /\ act.stage = "CLEANUP" /\ act.disconnected
             /\ act.pc \in {"ok", "err"}
             /\ wfPc' = "finalize"
       /\ (cancelled' /\ wfPc' \in {"finalize", "done"}) => output' = "CANCELED"
      ]_vars

C23_Witness ==
    /\ cancelled
    /\ wfPc = "done"
    /\ output = "CANCELED"
    /\ Len(startOrder) >= 3
    /\ startOrder[Len(startOrder)] = "CLEANUP"
    /\ "CLEANUP" \in finishedStages

\* C24: an attempt that recorded a FATAL error is followed by no further
\* attempt; an error row is RETRYABLE exactly when its code is S3_TIMEOUT or
\* NETWORK_ERROR, and the attempt that recorded it, if the workflow still
\* waits for it and the policy has attempts left, is followed by the next.
C24_FatalShortCircuits ==
    [][Len(errors') = Len(errors) + 1 =>
         LET row == errors'[Len(errors')] IN
         /\ (row.class = "RETRYABLE") <=> (row.code \in {"S3_TIMEOUT", "NETWORK_ERROR"})
         /\ row.class \in {"RETRYABLE", "FATAL"}
         /\ row.class = "FATAL" =>
               /\ act'.attempt <= act.attempt
               /\ zombie'.attempt <= zombie.attempt
               /\ (act' # act) => act'.pc = "err"
         /\ (row.class = "RETRYABLE" /\ act' # act) =>
               IF act.attempt < MaximumAttempts(act.stage, act.disconnected)
               THEN act'.attempt = act.attempt + 1 /\ Running(act')
               ELSE act'.pc = "err"
      ]_vars

C24_Witness ==
    /\ Len(errors) >= 2
    /\ errors[1].class = "FATAL"
    /\ errors[Len(errors)].class = "RETRYABLE"
    /\ act.stage = "UPLOADING"
    /\ act.attempt = 2
    /\ Running(act)

\* C25: no stage activity is attempted more often than its limit (3 for
\* metadata, validation and cleanup, 2 for transcoding, 5 for upload), and a
\* stage whose last allowed attempt failed is handed to the workflow as failed.
C25_AttemptsBounded ==
    [][LET Limit(stage) ==
               CASE stage \in {"METADATA_EXTRACTION", "VALIDATION", "CLEANUP"} -> 3
                 [] stage = "TRANSCODING" -> 2
                 [] stage = "UPLOADING"   -> 5
                 [] OTHER                 -> 3
       IN  /\ act'.attempt <= Limit(act'.stage)
           /\ zombie'.attempt <= Limit(zombie'.stage)
           /\ (Running(act) /\ act.attempt = Limit(act.stage) /\ act'.pc = "err") =>
                 act'.attempt = act.attempt
           /\ (wfPc = "wait" /\ act.pc = "err" /\ wfPc' # "wait") =>
                 act.stage \in failedStages'
      ]_vars

C25_Witness ==
    /\ "UPLOADING" \in failedStages
    /\ output = "FAILED"
    /\ Cardinality({i \in DOMAIN errors : errors[i].stage = "UPLOADING"}) = 5

\* C29: a part is tried at most 3 times; the third error of a part aborts the
\* upload, and an aborted upload uploads no further part and is never
\* completed.
C29_PartRetriesThenAbort ==
    [][/\ mp'.retry <= 3
       /\ (mp.pc = "parts" /\ mp'.retry = 0 /\ mp'.partNum = mp.partNum + 1) =>
             mp.retry < 3 /\ mp'.next >= mp.next
       /\ (mp.pc = "parts" /\ mp.retry = 2 /\ mp'.next = mp.next /\ mp' # mp) =>
             mp'.pc = "aborted" /\ mp'.partNum = mp.partNum
       /\ mp.pc = "aborted" => mp' = mp
      ]_vars

C29_Witness ==
    /\ mp.pc = "aborted"
    /\ mp.retry = 3
    /\ mp.partNum > 1
    /\ mp.partNum < mp.partCount


\* the weights the stages are said to have, in the order of AllStages
ClaimedWeights == <<5, 5, 50, 5, 10, 10, 10, 5>>

RECURSIVE SumSeq(_, _)
SumSeq(w, n) == IF n = 0 THEN 0 ELSE w[n] + SumSeq(w, n - 1)

\* C31: for a job at stage s with stage_progress p the overall progress is the
\* sum of the weights of the stages before s plus weight(s) * p / 100 in
\* integer arithmetic; the weights sum to 100 and the result lies in 0..100.
C31_OverallProgress ==
    /\ SumSeq(ClaimedWeights, Len(ClaimedWeights)) = 100
    /\ (calc.pc = "done" /\ calc.current_stage # NULL) =>
          LET k == StageIndex(calc.current_stage)
          IN  /\ calc.overall = SumSeq(ClaimedWeights, k - 1)
                                + (ClaimedWeights[k] * calc.stage_progress) \div 100
              /\ calc.overall \in 0..100

C31_Witness ==
    /\ calc.pc = "done"
    /\ calc.current_stage = "TRANSCODING"
    /\ calc.stage_progress = 50
    /\ calc.overall = 35

\* C32: of the keys the upload stage passes, a .vtt file from the workspace's
\* thumbs directory is typed THUMB_VTT and every other .vtt file SUBTITLE.
C32_VttTypes ==
    (at.pc = "typed" /\ Ext(Base(at.key)) = ".vtt") =>
        at.type = IF at.subdir = "thumbs" THEN "THUMB_VTT" ELSE "SUBTITLE"

\* C33: once Runner.Run has returned, neither the stdout reader nor the
\* ticker goroutine invokes the progress callback.
C33_NoCallbackAfterReturn ==
    \A i \in DOMAIN rg.calls : ~rg.calls[i].returned

\* C34: a Progress the ticker goroutine delivers is never older than a
\* Progress the stdout reader delivered to the callback before it.
C34_TickerNeverOlder ==
    \A i, j \in DOMAIN rg.calls :
        (i < j /\ rg.calls[i].by = "scanner" /\ rg.calls[j].by = "ticker"
               /\ rg.calls[j].progress > 0)
            => rg.calls[j].progress >= rg.calls[i].progress


\* C35: UploadDirectory terminates for every MAX_PARALLEL_UPLOADS the
\* validation accepts: while it waits with a context that is not cancelled,
\* either every goroutine has finished or some goroutine can take a step.
C35_UploadDirectoryNotStuck ==
    (ua.pc = "wait" /\ ~upCtxDone) =>
        \/ WaitGroupDone(gor)
        \/ \E f \in DOMAIN gor :
              \/ gor[f] = "uploading"
              \/ gor[f] = "waiting" /\ SlotFree(sem)

\* C39: however often the upload stage was attempted, conversion_artifacts
\* holds at most one row per job and key (the bucket is the same for all).
C39_OneRowPerKey ==
    \A r1, r2 \in artifactRows :
        (r1.job_id = r2.job_id /\ r1.key = r2.key) => r1 = r2

\* C40: when the upload stage has returned success, there is an artifact row
\* for every file of hls, thumbs, subtitles and meta in the workspace.
C40_RowForEveryFile ==
    (ua.pc = "done" /\ ~upCtxDone /\ ua.maxConcurrent > 0) =>
        \A d \in DOMAIN UploadDirs : \A f \in 1..tree[d] :
            \E row \in artifactRows :
                row.key = Key(ua.video_id, JobID, UploadDirs[d], f)


\* C36: the workspace of a job is eventually removed, by Cleanup or by the
\* orphan sweep: a sweep that finds the workspace older than the configured
\* age, after the job's workflow has ended and no activity runs, removes it.
C36_SweepReapsEndedJob ==
    [][(/\ sw' # sw
        /\ wfPc = "done"
        /\ ~Running(act)
        /\ ~Running(zombie)
        /\ sw'.entries[1].age > OrphanMaxAge) => ~workspaceExists'
      ]_vars

\* C37: a job row admission inserted reaches a terminal status: once CreateJob
\* has returned after a failed workflow start, and no cancel request was
\* accepted or is being served, the row is not left QUEUED.
C37_FailedStartNotQueued ==
    (createPc = "failed" /\ cancelPc = "idle" /\ ~cancelIssued) =>
        jobs[JobID].status # "QUEUED"

\* C38: the active-jobs gauge counts the one job of the model at most once,
\* is never negative, and is back at its initial value once the workflow has
\* ended and no activity runs.
C38_ActiveJobsGauge ==
    /\ jobsActive \in 0..1
    /\ (wfPc = "done" /\ ~Running(act) /\ ~Running(zombie)) => jobsActive = 0

====
